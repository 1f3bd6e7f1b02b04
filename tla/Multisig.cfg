SPECIFICATION Spec
CONSTANTS
    Cosigner = {1, 2, 3}
    Config <- Wallets
    Tx <- Transactions
    Rank <- RankOnPath
    Fit = 2
    MULTISIG_COSIGNER_MAX_CNT = 4
    MaxRaw = 3
INVARIANTS TypeOK InOrder SameAddress RefusedForCause
PROPERTIES ImplementsCoSigning
