SPECIFICATION Spec
CONSTANTS
    Steps = 2
    MaxChange = 1
    Ops = {"gotojob", "set_vmode", "vnmode", "wi", "pipes", "hl", "sel", "subset",
           "look", "show_pipes", "skel", "stop", "cam", "update", "flyby_init", "egg"}
PROPERTIES
    KeepsPromise
    EventuallySettled
