----------------------------- MODULE MCPhoneCheck -----------------------------
EXTENDS PhoneCheckProperties, TLC

OneAccount == <<1>>
TwoAccounts == <<1, 2>>
RunSymmetry == Permutations(Runs)
===============================================================================
