\* Two Telegram threads and the Discord worker answer the same two offers, across a
\* new print; an offer is good for the tick it was made in.  "pause" stands for both
\* pause and resume; a stop takes the same path.
CONSTANTS
    TelegramWorkers = {t1, t2}
    DiscordWorkers = {d}
    Pressed = {"pause"}
    TTL = 0
    MaxOffers = 2
    MaxScope = 2
    MaxTime = 1
SPECIFICATION Spec
SYMMETRY Symmetry
INVARIANT SingleUse
INVARIANT StoreIsOpenOffers
PROPERTY ClaimIsEntitled
CHECK_DEADLOCK FALSE
