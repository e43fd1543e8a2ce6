SPECIFICATION Spec
CONSTANT NumDevices = 3
INVARIANT KeysFromKeyboard
INVARIANT HardWiredEntryThere
INVARIANT NoTransferInReset
PROPERTY EnumerationEnds
