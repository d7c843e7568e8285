----------------------------- MODULE Keepalived -----------------------------
(***************************************************************************)
(* CoreManager.check_keepalived_pillar: the keepalived instances of all    *)
(* minions are read from the pillar and merged into one table of VIPs, in  *)
(* the order of two dicts, which is any; the first entry that disagrees    *)
(* with the table so far ends the check.                                   *)
(***************************************************************************)
EXTENDS Naturals, FiniteSets

CONSTANTS Minions, Instances, Addresses, RouterIds, Passwords,
          NoMinion

Data == [address : Addresses, virtual_router_id : RouterIds, password : Passwords]

\* The pillars of a cluster: some instances of some minions.
Slots == Minions \X Instances
Pillars == UNION {[S -> Data] : S \in SUBSET Slots}

VARIABLES
  pillar_vips,
  todo,       \* the slots that the loops have not reached
  minion_id,  \* the minion of the outer loop
  vips,       \* the table: address -> its router id, password and nodes
  check       \* "idle", "running", "passed", "failed"

keepalived == <<pillar_vips, todo, minion_id, vips, check>>

KeepalivedInit ==
  /\ pillar_vips = <<>> /\ todo = {} /\ minion_id = NoMinion /\ vips = <<>>
  /\ check = "idle"

GetVips(p) ==
  /\ check = "idle"
  /\ pillar_vips' = p /\ todo' = DOMAIN p /\ check' = "running"
  /\ UNCHANGED <<minion_id, vips>>

\* The slot that comes next: of the same minion while it has one.
InTurn(s) ==
  s \in todo /\ ((\E t \in todo : t[1] = minion_id) => s[1] = minion_id)

\* check_single_address: another address has this router id.  The names of
\* the instances are compared as well, but only where that is so.  Mutant: nothing
\* is compared.
NothingTaken(d) == FALSE
RouterIdTaken(d) ==
  \E a \in DOMAIN vips : vips[a].virtual_router_id = d.virtual_router_id /\ a # d.address

NewVip(s, d) ==
  /\ d.address \notin DOMAIN vips
  /\ IF RouterIdTaken(d)
       THEN check' = "failed" /\ UNCHANGED vips
       ELSE /\ vips' = [a \in DOMAIN vips \cup {d.address} |->
                          IF a = d.address
                            THEN [virtual_router_id |-> d.virtual_router_id,
                                  password |-> d.password, nodes |-> {s[1]}]
                            ELSE vips[a]]
            /\ UNCHANGED check

\* check_single_router_id, and the password.  Two instances of one minion may
\* share a VIP, and equal priorities are only logged.
KnownVip(s, d) ==
  /\ d.address \in DOMAIN vips
  /\ LET v == vips[d.address] IN
     IF v.virtual_router_id = d.virtual_router_id /\ v.password = d.password
       THEN vips' = [vips EXCEPT ![d.address].nodes = @ \cup {s[1]}] /\ UNCHANGED check
       ELSE check' = "failed" /\ UNCHANGED vips

CheckSlot(s) ==
  /\ check = "running" /\ InTurn(s)
  /\ NewVip(s, pillar_vips[s]) \/ KnownVip(s, pillar_vips[s])
  /\ todo' = todo \ {s} /\ minion_id' = s[1]
  /\ UNCHANGED pillar_vips

Passed ==
  /\ check = "running" /\ todo = {} /\ check' = "passed"
  /\ UNCHANGED <<pillar_vips, todo, minion_id, vips>>

KeepalivedNext ==
  \/ \E p \in Pillars : GetVips(p)
  \/ \E s \in Slots : CheckSlot(s)
  \/ Passed

KeepalivedSpec == KeepalivedInit /\ [][KeepalivedNext]_keepalived

-----------------------------------------------------------------------------

\* What the code compares of two instances, on whichever minions: VIPs and router
\* ids go together in pairs, with one password each.
Agree(d, e) ==
  /\ d.address = e.address <=> d.virtual_router_id = e.virtual_router_id
  /\ d.address = e.address => d.password = e.password
Consistent(p) == \A s, t \in DOMAIN p : Agree(p[s], p[t])

\* The verdict does not depend on the order of the dicts, which decides what is
\* compared with what: it is that every two instances agree, and the table of a
\* check that passed has every VIP with all its nodes.
VerdictIgnoresTheOrder ==
  /\ check = "failed" => ~ Consistent(pillar_vips)
  /\ check = "passed" =>
       /\ Consistent(pillar_vips)
       /\ DOMAIN vips = {pillar_vips[s].address : s \in DOMAIN pillar_vips}
       /\ \A a \in DOMAIN vips :
            vips[a].nodes = {s[1] : s \in {t \in DOMAIN pillar_vips :
                                             pillar_vips[t].address = a}}

\* What the docstring of check_keepalived_pillar says that it checks besides: "no
\* 'virtual_router_id' or VIP doubles in different keepalived instances on the same
\* node".
NoDoublesOnANode ==
  check = "passed" =>
    \A s, t \in DOMAIN pillar_vips : s # t /\ s[1] = t[1] =>
      /\ pillar_vips[s].address # pillar_vips[t].address
      /\ pillar_vips[s].virtual_router_id # pillar_vips[t].virtual_router_id
=============================================================================
