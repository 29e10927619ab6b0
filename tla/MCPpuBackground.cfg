CONSTANTS
    hpixels = 799
    vlines = 3
    HsFirst = 656
    HsEnd = 752
    VsFirst = 2
    Settings <- MCSettings
    WritePixels = {5, 300, 600, 775, 798}
SPECIFICATION BackgroundSpec
INVARIANTS BackgroundShown SecondTileRepeats
