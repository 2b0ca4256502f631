-------------------------- MODULE MCMessageDispatch ---------------------------
EXTENDS MessageDispatchProperties, TLC

OneAccount == <<1>>
TwoAccounts == <<1, 2>>
RunSymmetry == Permutations(Runs)
===============================================================================
