SPECIFICATION AppearanceSpec
CONSTANTS
    Wallpapers = {w1, w2}
    Light = {w2}
    Zones = {z1, z2}
    Coords = {here, there}
    Extras = {e1, e2}
    Budgets <- OneChange
CHECK_DEADLOCK FALSE
PROPERTY RestartDecides
