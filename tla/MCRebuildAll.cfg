SPECIFICATION Spec
CONSTANTS
    Steps = 1
    MaxChange = 1
    Ops = {"set_dmode", "set_dmode_panel", "gotojob", "set_vmode", "vnmode", "wi",
           "rt", "pipes", "hl", "sel", "subset", "look", "skel", "op_subset",
           "nodeanim", "stop", "cam", "update", "load_state", "flyby_init", "egg"}
PROPERTIES
    FetchHeals
