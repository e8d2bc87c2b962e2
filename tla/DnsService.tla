----------------------------- MODULE DnsService -----------------------------
(***************************************************************************)
(* nest::net::DnsService: a table of hosts and their addresses, and a      *)
(* thread that resolves every host of the table again and again.           *)
(*                                                                         *)
(* The table is guarded by mtx_, and every operation on it is atomic.  The *)
(* thread works on a copy: hosts that are added meanwhile wait for the     *)
(* next round, and it writes back what it resolved while others add and    *)
(* read.  An address is reduced to its family.                             *)
(***************************************************************************)
EXTENDS Naturals

CONSTANTS
    Hosts,     \* host names
    Families,  \* families of addresses
    Lists,     \* the lists of addresses that getaddrinfo may find
    Retry      \* retry_, at least 1

VARIABLES
    hostsInfo,  \* hostsInfo_: the addresses of the hosts in the table
    running,    \* running_
    worker,     \* where thread_ is; "none": there is no such thread
    stopping,   \* a thread is in Stop and joins
    rest,       \* the hosts of the round's copy that are still to come
    tries,      \* failed tries for the host at hand
    found       \* the list that UpdateHost is called with

vars == <<hostsInfo, running, worker, stopping, rest, tries, found>>


(* The host at hand: the order of the copy does not matter. *)
Host == CHOOSE h \in rest : TRUE

TypeOK ==
    /\ DOMAIN hostsInfo \subseteq Hosts
    /\ \A h \in DOMAIN hostsInfo : hostsInfo[h] \subseteq Families
    /\ running \in BOOLEAN /\ stopping \in BOOLEAN
    /\ worker \in {"none", "while", "round", "update", "ended"}
    /\ rest \subseteq Hosts /\ tries \in 0 .. Retry - 1
    /\ found \subseteq Families

Init ==
    /\ hostsInfo = [h \in {} |-> {}]
    /\ running = FALSE /\ worker = "none" /\ stopping = FALSE
    /\ rest = {} /\ tries = 0 /\ found = {}

(* hostsInfo_[h] = list *)
Put(h, list) ==
    hostsInfo' = [g \in DOMAIN hostsInfo \cup {h} |->
                      IF g = h THEN list ELSE hostsInfo[g]]

(* AddHost, in any thread: a host that is there keeps its addresses. *)
AddHost(h) ==
    /\ IF h \in DOMAIN hostsInfo THEN UNCHANGED hostsInfo ELSE Put(h, {})
    /\ UNCHANGED <<running, worker, stopping, rest, tries, found>>

(* GetHostAddress: no addresses for a host that is not there. *)
GetHostAddress(h) == IF h \in DOMAIN hostsInfo THEN hostsInfo[h] ELSE {}

(* Start; the owner starts a service that is not running. *)
Start ==
    /\ worker = "none" /\ ~stopping
    /\ running' = TRUE /\ worker' = "while"
    /\ UNCHANGED <<hostsInfo, stopping, rest, tries, found>>

(* Stop clears running_ and joins the thread, ... *)
Stop ==
    /\ worker # "none" /\ ~stopping
    /\ running' = FALSE /\ stopping' = TRUE
    /\ UNCHANGED <<hostsInfo, worker, rest, tries, found>>

(* ... and returns when the thread has ended. *)
Joined ==
    /\ stopping /\ worker = "ended"
    /\ stopping' = FALSE /\ worker' = "none"
    /\ UNCHANGED <<hostsInfo, running, rest, tries, found>>

----------------------------------------------------------------------------
(* OnWork.                                                                 *)

(* Mutant: the copy is made once, for all rounds. *)
TestRunning_Once ==
    /\ worker = "while"
    /\ IF running THEN worker' = "round" /\ rest' = {}
                  ELSE worker' = "ended" /\ rest' = {}
    /\ UNCHANGED <<hostsInfo, running, stopping, tries, found>>

(* The while condition, and GetHosts. *)
TestRunning ==
    /\ worker = "while"
    /\ IF running THEN worker' = "round" /\ rest' = DOMAIN hostsInfo
                  ELSE worker' = "ended" /\ rest' = {}
    /\ UNCHANGED <<hostsInfo, running, stopping, tries, found>>

(* GetHostInfo finds nothing: another try after sleep_, or the next host. *)
LookupFails ==
    /\ worker = "round" /\ rest # {}
    /\ tries' = (tries + 1) % Retry
    /\ rest' = IF tries' = 0 THEN rest \ {Host} ELSE rest
    /\ UNCHANGED <<hostsInfo, running, worker, stopping, found>>

(* GetHostInfo finds addresses. *)
LookupFinds(list) ==
    /\ worker = "round" /\ rest # {}
    /\ found' = list
    /\ worker' = "update"
    /\ UNCHANGED <<hostsInfo, running, stopping, rest, tries>>

(* UpdateHost: the new list takes the place of the old one. *)
UpdateHost ==
    /\ worker = "update"
    /\ Put(Host, found)
    /\ rest' = rest \ {Host}
    /\ tries' = 0 /\ found' = {} /\ worker' = "round"
    /\ UNCHANGED <<running, stopping>>

(* All hosts of the copy are done, and interval_ passes. *)
RoundDone ==
    /\ worker = "round" /\ rest = {}
    /\ worker' = "while"
    /\ UNCHANGED <<hostsInfo, running, stopping, rest, tries, found>>

OnWork ==
    \/ TestRunning \/ LookupFails \/ UpdateHost \/ RoundDone
    \/ \E list \in Lists : LookupFinds(list)
=============================================================================
