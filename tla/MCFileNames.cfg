SPECIFICATION Spec
CONSTANTS
    Instances <- MCCases
    Lower <- MCLower
    Clean <- MCClean
    Digits <- MCDigits
    Setups <- MCSetups
INVARIANTS
    OwnFile
