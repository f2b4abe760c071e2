---------------------------- MODULE PaymentLedger ----------------------------
(***************************************************************************)
(* What both adapters promise about money, without rows, leases, tokens or *)
(* workers: a ledger of keys and payments.                                 *)
(*                                                                         *)
(*   chosen[k]   the payment that key k stands for (None: not decided)     *)
(*   issued      payments that some key ever stood for                     *)
(*   flying      payments on their way to the network                      *)
(*   taken       payments that the network took                            *)
(*   verdict[k]  what key k was settled with                               *)
(*                                                                         *)
(* A key stands for one payment, which is decided before it leaves; what   *)
(* leaves may arrive late, twice or never; a key is settled "ok" only for  *)
(* a payment that the network took; and a settled key stays settled.  The  *)
(* two adapters differ in two points: whether two keys may stand for one   *)
(* payment, and whether a key is ever forgotten.                           *)
(***************************************************************************)
CONSTANTS
    Keys,       \* idempotency keys
    Payments,   \* transactions, or payment hashes
    None,       \* no payment
    Exclusive,  \* BOOLEAN: no two keys ever stand for one payment
    Forgetful   \* BOOLEAN: the record of a key may expire

VARIABLES chosen, issued, flying, taken, verdict

ledgerVars == <<chosen, issued, flying, taken, verdict>>

LedgerInit ==
    /\ chosen = [k \in Keys |-> None]
    /\ issued = {}
    /\ flying = {}
    /\ taken = {}
    /\ verdict = [k \in Keys |-> "none"]

Choose(k, p) ==
    /\ chosen[k] = None
    /\ Exclusive => p \notin issued
    /\ chosen' = [chosen EXCEPT ![k] = p]
    /\ issued' = issued \cup {p}
    /\ UNCHANGED <<flying, taken, verdict>>

\* Also for a key that was refused or forgotten: a slow worker may do that.
Leave(p) ==
    /\ p \in issued
    /\ flying' = flying \cup {p}
    /\ UNCHANGED <<chosen, issued, taken, verdict>>

\* One submission of p reaches the network or is lost; another may still fly.
Arrive(p) ==
    /\ p \in flying
    /\ flying' \in {flying, flying \ {p}}
    /\ taken' \in {taken, taken \cup {p}}
    /\ UNCHANGED <<chosen, issued, verdict>>

SettleOk(k) ==
    /\ verdict[k] = "none"
    /\ chosen[k] \in taken
    /\ verdict' = [verdict EXCEPT ![k] = "ok"]
    /\ UNCHANGED <<chosen, issued, flying, taken>>

Refuse(k) ==
    /\ verdict[k] = "none"
    /\ chosen[k] # None
    /\ verdict' = [verdict EXCEPT ![k] = "refused"]
    /\ UNCHANGED <<chosen, issued, flying, taken>>

Forget(k) ==
    /\ Forgetful
    /\ chosen' = [chosen EXCEPT ![k] = None]
    /\ verdict' = [verdict EXCEPT ![k] = "none"]
    /\ UNCHANGED <<issued, flying, taken>>

LedgerNext ==
    \/ \E k \in Keys, p \in Payments : Choose(k, p)
    \/ \E p \in Payments : Leave(p) \/ Arrive(p)
    \/ \E k \in Keys : SettleOk(k) \/ Refuse(k) \/ Forget(k)

LedgerSpec == LedgerInit /\ [][LedgerNext]_ledgerVars

=============================================================================
