------------------------------ MODULE Paystack ------------------------------
(* The payment provider, as paystack.service.ts and payments.service.ts use it:
   hosted checkouts, the verify and refund endpoints, and the charge.success
   webhook, which is redelivered until the server answers it with success. *)
EXTENDS Shop

VARIABLES
  txn,             \* provider transactions, by reference
  hooks            \* references whose charge.success event is not acknowledged

providerVars == <<txn, hooks>>

\* created: initialized, but no buyer holds the link;  open: a buyer holds it;
\* short: charged, but not the amount or currency the server asked for
TxnStates == {"unused", "created", "open", "failed", "paid", "short", "refunded"}
Txns == [state : TxnStates, order : Orders]
Captured == {"paid", "short"}

PaystackTypeOK == txn \in [Refs -> Txns] /\ hooks \subseteq Refs

\* the order of an unused reference means nothing
PaystackInit ==
  /\ \E o \in Orders : txn = [r \in Refs |-> [state |-> "unused", order |-> o]]
  /\ hooks = {}

-----------------------------------------------------------------------------
(* What the buyer's browser does on the hosted page. A failed attempt may be
   retried on the same link. *)

Charge(r, outcome) ==
  /\ txn[r].state \in {"open", "failed"}
  /\ txn' = [txn EXCEPT ![r].state = outcome]
  /\ hooks' = hooks \cup {r}

Pay(r) == Charge(r, "paid")

PayShort(r) == Charge(r, "short")

Decline(r) ==
  /\ txn[r].state = "open"
  /\ txn' = [txn EXCEPT ![r].state = "failed"]
  /\ UNCHANGED hooks

-----------------------------------------------------------------------------
(* verifyTransaction: what the verify endpoint reports for a reference, and the
   amount-and-currency comparison confirmPayment makes of a success. Once a
   transaction is refunded the provider stops reporting it as a success. *)
MutVerifyResult(r) ==
  CASE txn[r].state \in Captured            -> "success"
    [] txn[r].state \in {"failed", "refunded"} -> "failed"
    [] OTHER                                 -> "abandoned"

VerifyResult(r) ==
  CASE txn[r].state = "paid"                  -> "success"
    [] txn[r].state = "short"                 -> "mismatch"
    [] txn[r].state \in {"failed", "refunded"} -> "failed"
    [] OTHER                                  -> "abandoned"
=============================================================================
