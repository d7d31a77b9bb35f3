SPECIFICATION MatchingSpec
CONSTANTS
    Hooks = {h1, h2}
    Suspending = {h1}
    MaxFlips = 3
    h1 = h1
    h2 = h2
PROPERTIES
    NeverToldTwice
