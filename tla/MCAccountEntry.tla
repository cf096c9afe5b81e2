---------------------------- MODULE MCAccountEntry ----------------------------
(* Instances of AccountEntry, with its pages, for TLC.  The sessions are interchangeable.    *)
EXTENDS AccountPages, TLC
CONSTANTS s1, s2
TwoSessions == {s1, s2}
AnySessions == Permutations(TwoSessions)
TwoAddresses == {"google", "new"}
OnlyAuthenticator == {"totp_confirm"}

\* Bound: from the first change of the address on nobody logs in, and of the settings
\* only the authenticator is confirmed.
AddressAlone ==
  Cardinality(proven) > 1 =>
    /\ attempt = NoAttempt
    /\ ~acct.google /\ acct.codes = 0
    /\ \A s \in Sessions : /\ ~row[s].generated /\ ~row[s].social
                          /\ busy[s] \in {"none", "email", "totp_confirm"}
=============================================================================
