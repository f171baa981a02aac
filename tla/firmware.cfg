SPECIFICATION Spec
CONSTANTS
    Digit = 2
    LEDS_COUNT = 1
    CHANNELS = 1
    Shades = {0, 1, 5}
    Slowdowns = {0, 2}
    FirstSlowdown = 2
INVARIANT TypeOK
PROPERTIES Settles Approaches FadeStarts
