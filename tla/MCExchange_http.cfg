SPECIFICATION MCSpec
CONSTANTS
    BASE_STRING <- MCDigits
    MaxExpire = 100
    Lifetime = 90
    Keys <- MCKeys
    Texts <- MCTexts
    Junk <- MCJunk
    Foreign <- MCForeign
    Uids <- MCUids
    Times <- MCTimes
    Ms <- MCMs
    Randoms <- MCRandoms
    Pixel <- MCPixel
    MaxParams = 2
    MaxExchanges = 2
    SampleBytes = {0, 63, 128, 255}
    MaxBytes = 5
INVARIANTS ParamsAreRead CookiesAreRead RedirectedAsOneself CodesComeBack
PROPERTY JarAsAsked
CHECK_DEADLOCK FALSE
