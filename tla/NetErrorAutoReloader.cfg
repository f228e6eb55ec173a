SPECIFICATION ReloaderSpec
CONSTANTS
    Handles = {h1, h2}
    Urls = {u1, u2}
    Errors = {e1, e2}
    NoValue = NoValue
    LastDelay = 2
INVARIANTS TimerOnlyWhenUseful NoForgottenPage
PROPERTIES KeepsTrying
