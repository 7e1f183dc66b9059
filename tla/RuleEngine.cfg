\* A lamp and a normally-closed valve, pulsed for two poll intervals each; cycles on time or
\* one late, a device that may stop answering and an event log that may take nothing.
CONSTANTS
    btn = btn
    fault = fault
    led = led
    valve = valve
    alarm = alarm
    ioModule = ioModule
    plc = plc
    None = None
    Inputs = {btn, fault}
    Outputs = {led, valve}
    Devices = {ioModule}
    Low = 0
    High = 1
    Elapsed = {1, 2}
    Domain <- Levels
    SafeState <- AtRest
    WiredTo <- Wiring
    Rules <- PurgeRules
SPECIFICATION LiveSpec
INVARIANTS TypeOK PulseCovered
PROPERTIES OncePerPress PulsesEnd
