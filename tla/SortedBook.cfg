\* Five ticks in four blocks, one price between two ticks; two blocks fit the window.
\* Fixed point numbers of two decimals in eight bits: -1.28 to 1.27.
SPECIFICATION MCSpec
CONSTANTS
    Prices = {2, 4, 5, 6, 8, 14}
    Volumes = {0, 1}
    tickSize = 2
    TICKS = 2
    WINDOW = 2
    MAX_LEVELS = 4
    MAX_BLOCKS = 3
    FIXED_DIGITS = 2
    Width = 8
INVARIANTS ReadsAreExact LayoutIsSound ParsesAsReference FormatParsesBack
PROPERTY ImplementsPriceMap
