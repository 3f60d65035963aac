\* As InstallAll, with nothing that fails and nobody who interrupts.
SPECIFICATION Spec
CONSTANTS
    Copies = {v1, v2}
    Others = {o1}
    Dos = Dos
    NoCopy = NoCopy
    FirstAuto = 1
    LastDrive = 3
    MaxFail = 0
    MaxBreak = 0
PROPERTY SecondRefused
