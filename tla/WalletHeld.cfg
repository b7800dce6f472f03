\* Two messages in flight at once.
CONSTANTS
    m1 = m1
    m2 = m2
    m3 = m3
    ChargedMessages = {m1, m2, m3}
    Price <- MCPrice
    Funds = 120
    Credit = 0
    MaxBigint = 99999
    Txs = {t1}
SPECIFICATION WalletSpec
INVARIANTS
    ReservedIsHeld
CHECK_DEADLOCK FALSE
