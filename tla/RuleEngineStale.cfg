\* The seed rules; cycles on time or one late, and a device that may stop answering.
CONSTANTS
    btn = btn
    fault = fault
    led = led
    valve = valve
    alarm = alarm
    ioModule = ioModule
    plc = plc
    None = None
    Inputs = {btn, fault}
    Outputs = {led, alarm}
    Devices = {ioModule, plc}
    Low = 0
    High = 1
    Elapsed = {1, 2}
    Domain <- Levels
    SafeState <- AtRest
    WiredTo <- Wiring
    Rules <- SeedRules
SPECIFICATION Spec
PROPERTY NeverActsOnStale
