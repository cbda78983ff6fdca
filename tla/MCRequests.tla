----------------------------- MODULE MCRequests ------------------------------
EXTENDS Requests, TLC

WorkerSymmetry == Permutations(Workers)

\* One user with a token that expires early and an administrator's, and another whose
\* token is not valid at first.
Early == [sub |-> "u1", role |-> "analyst", nbf |-> 0, exp |-> 1]
Admin == [sub |-> "u1", role |-> "admin", nbf |-> 0, exp |-> 9]
Other == [sub |-> "u2", role |-> "analyst", nbf |-> 1, exp |-> 9]
SomeTokens == {Early, Admin, Other}

\* The URL: one alert is read and deleted under the same.
Url == [list |-> "alerts", get |-> "alert", feedback |-> "feedback", delete |-> "alert"]

SomeArrivals ==
    {[op |-> "get", token |-> t] : t \in SomeTokens \cup {BadToken}}
    \cup {[op |-> "delete", token |-> Admin], [op |-> "list", token |-> Early],
          [op |-> "health", token |-> NoToken], [op |-> "preflight", token |-> NoToken]}
==============================================================================
