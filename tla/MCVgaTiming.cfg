CONSTANTS
    hpixels = 799
    vlines = 524
    HsFirst = 656
    HsEnd = 752
    VsFirst = 490
SPECIFICATION Spec
INVARIANT VsyncAt490
