----------------------------- MODULE OneShotCall -----------------------------
(***************************************************************************)
(* What a paid provider call promises, whoever implements it: money is     *)
(* reserved before anything is sent, the provider is asked at most once,   *)
(* a call is settled once and stays as settled, and a call whose attempt   *)
(* was started is never settled for nothing.                               *)
(***************************************************************************)
EXTENDS Naturals

CONSTANTS
    Calls,      \* the calls
    Reserve     \* what each call reserves

VARIABLES
    phase,      \* per call: absent, reserved, started, settled, forfeited
    sends,      \* per call: how often the provider was asked
    bill,       \* per call: what the provider charges for the answer
    charge      \* per call: what the ledger charges

oneShotVars == <<phase, sends, bill, charge>>

Init ==
    /\ phase = [c \in Calls |-> "absent"]
    /\ sends = [c \in Calls |-> 0]
    /\ bill = [c \in Calls |-> 0]
    /\ charge = [c \in Calls |-> 0]

Reserved(c) ==
    /\ phase[c] = "absent"
    /\ phase' = [phase EXCEPT ![c] = "reserved"]
    /\ UNCHANGED <<sends, bill, charge>>

Start(c) ==
    /\ phase[c] = "reserved"
    /\ phase' = [phase EXCEPT ![c] = "started"]
    /\ UNCHANGED <<sends, bill, charge>>

(* A started call may be settled by somebody else before its one send. *)
Send(c) ==
    /\ \/ phase[c] = "started"
       \/ phase[c] = "settled" /\ charge[c] = Reserve[c]
    /\ sends[c] = 0
    /\ sends' = [sends EXCEPT ![c] = 1]
    /\ bill'[c] \in Nat
    /\ bill' = [bill EXCEPT ![c] = bill'[c]]
    /\ UNCHANGED <<phase, charge>>

(* Nothing for a call never started, else the bill or the whole reserve. *)
Settle(c) ==
    /\ \/ phase[c] = "reserved" /\ charge' = [charge EXCEPT ![c] = 0]
       \/ phase[c] = "started" /\ charge' = [charge EXCEPT ![c] = Reserve[c]]
       \/ /\ phase[c] = "started"
          /\ sends[c] = 1
          /\ charge' = [charge EXCEPT ![c] = bill[c]]
    /\ phase' = [phase EXCEPT ![c] = "settled"]
    /\ UNCHANGED <<sends, bill>>

(* A call not yet started may be given up for its whole reserve: nothing   *)
(* is sent for it any more.                                                *)
Forfeit(c) ==
    /\ phase[c] = "reserved"
    /\ phase' = [phase EXCEPT ![c] = "forfeited"]
    /\ charge' = [charge EXCEPT ![c] = Reserve[c]]
    /\ UNCHANGED <<sends, bill>>

Next ==
    \E c \in Calls :
        Reserved(c) \/ Start(c) \/ Send(c) \/ Settle(c) \/ Forfeit(c)

Spec == Init /\ [][Next]_oneShotVars
=============================================================================
