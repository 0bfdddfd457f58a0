------------------------------ MODULE MCServing ------------------------------
(***************************************************************************)
(* Instances of Serving for TLC.                                           *)
(***************************************************************************)
EXTENDS Serving, TLC

CONSTANTS r1, r2

Unset == [key \in Settings |-> Absent]
\* A .env file as a developer has it.
OneFile == {[Unset EXCEPT !["READ_TIMEOUT"] = 1, !["SHUTDOWN_TIMEOUT"] = 2]}

\* Every relation of the deadlines, the invalid ones too.
TimedEnvironments ==
  {[Unset EXCEPT !["SHUTDOWN_TIMEOUT"] = shutdown, !["READ_TIMEOUT"] = read,
                 !["WRITE_TIMEOUT"] = write, !["REQUEST_TIMEOUT"] = 1] :
     shutdown \in {1, Absent}, read \in {2, Absent}, write \in 1..2}

Ask(route, defects, slow, patient) ==
  [route |-> route, defects |-> defects, slow |-> slow, patient |-> patient]

\* One request of any kind, and one of a provider.
SomeRequests ==
  (r1 :> {Ask("createOrder", {}, TRUE, FALSE), Ask("createOrder", {}, FALSE, TRUE),
          Ask("createOrder", {}, TRUE, TRUE), Ask("getCart", {"origin", "token"}, FALSE, FALSE),
          Ask("getCart", {"size"}, FALSE, TRUE),
          Ask("adminUpdateSKU", {"role", "id"}, FALSE, TRUE)})
  @@ (r2 :> {Ask("mockPaymentWebhook", {"token"}, FALSE, TRUE)})
=============================================================================
