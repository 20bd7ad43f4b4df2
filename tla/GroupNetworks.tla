--------------------------- MODULE GroupNetworks ----------------------------
(***************************************************************************)
(* PrepareService: the OpenNebula user of an instances group, its network  *)
(* of public addresses and its private network with a VLAN of its own; and *)
(* Down, which deletes them.  Every call of OpenNebula may fail, some      *)
(* failures are returned, some are not looked at, and the process may die  *)
(* between two calls, before the IDs it got are published.                 *)
(*                                                                         *)
(* PrepareService runs concurrently for different groups; two requests for *)
(* the same group are not overlapped here.                                 *)
(***************************************************************************)
EXTENDS Integers, Sequences, FiniteSets, FiniteSetsExt

CONSTANTS
    Groups,       \* instances groups
    Vlans,        \* VLANs of the provider: start .. start + size - 1
    MaxNeed,      \* bound: public addresses of a group
    MaxDowns,     \* bound: groups taken down
    MaxNets,      \* bound: networks of each kind ever created
    MaxFailures,  \* bound: failing calls
    MaxCrashes    \* bound: crashes of the process

ASSUME NetworkAssumption ==
    /\ Vlans \subseteq Nat /\ IsFiniteSet(Vlans)
    /\ {MaxNeed, MaxDowns, MaxNets, MaxFailures, MaxCrashes} \subseteq Nat

VARIABLES
    \* OpenNebula
    login,       \* group -> ID of the user with its name, 0 if there is none
    lastUser,    \* the last user ID given out
    pub,         \* networks reserved from the public pool
    priv,        \* private networks
    \* the core
    need,        \* public addresses the group's instances need
    data,        \* InstancesGroup.Data
    spState,     \* the provider's state: the VLANs set in free_vlans, and how
                 \* many private networks had been made by then
    \* PrepareService, by group
    pc,
    cur,         \* its data, and the provider's state it was given
    short,       \* addresses needed, then those still to be reserved
    at,          \* index in pub or priv of the network worked on, or 0
    \* history
    peak,        \* the most addresses the user of the group was to have
    misread,     \* users one of whose networks was overlooked by a failing call
    failures, crashes, downs

one    == <<login, lastUser, pub, priv>>
core   == <<need, data, spState, peak>>
bounds == <<failures, crashes, downs>>
vars   == <<one, core, pc, cur, short, at, misread, bounds>>

NoData == [userid |-> 0, public_vn |-> 0, private_vn |-> 0]
Idle   == [data |-> NoData, sp |-> [used |-> {}, nets |-> 0]]

\* A user is created when there is none of the group's name.
MaxUsers == Cardinality(Groups) + MaxDowns

Nets     == [name : Nat, owner : Nat, vlan : Nat, live : BOOLEAN, basis : Nat]
Publics  == [name : Nat, owner : Nat, size : Nat]
States   == [used : SUBSET Nat, nets : Nat]
Datas    == [userid : Nat, public_vn : Nat, private_vn : Nat]
Requests == [data : Datas, sp : States]

TypeOK ==
    /\ priv \in Seq(Nets)
    /\ pub \in Seq(Publics)
    /\ spState \in States
    /\ data \in [Groups -> Datas]
    /\ cur \in [Groups -> Requests]
    /\ at \in [Groups -> Nat]
    /\ lastUser \in Nat

Init ==
    /\ login = [g \in Groups |-> 0] /\ lastUser = 0
    /\ pub = << >> /\ priv = << >>
    /\ need \in [Groups -> 0 .. MaxNeed]
    /\ data = [g \in Groups |-> NoData]
    /\ spState = [used |-> {}, nets |-> 0]
    /\ pc = [g \in Groups |-> "idle"]
    /\ cur = [g \in Groups |-> Idle]
    /\ short = [g \in Groups |-> 0] /\ at = [g \in Groups |-> 0]
    /\ peak = [g \in Groups |-> 0] /\ misread = {}
    /\ failures = 0 /\ crashes = 0 /\ downs = 0

-----------------------------------------------------------------------------
(* Helpers.                                                                *)

User(g) == cur[g].data.userid

\* GetUserPublicVNet and GetUserPrivateVNet: networks that have the user's
\* name for it and that the user owns.
PublicOf(u)  == {n \in DOMAIN pub : pub[n].name = u /\ pub[n].owner = u /\ pub[n].size > 0}
PrivateOf(u) == {n \in DOMAIN priv : priv[n].name = u /\ priv[n].owner = u /\ priv[n].live}

Go(g, step) == pc' = [pc EXCEPT ![g] = step]
Fails       == failures < MaxFailures /\ failures' = failures + 1 /\ UNCHANGED <<crashes, downs>>
Works       == UNCHANGED bounds

\* Return with an error: data that is not nil is published all the same.
Return(g) == Go(g, "publish") /\ UNCHANGED <<one, core, cur, short, at, misread>>

-----------------------------------------------------------------------------
(* PrepareService.                                                         *)

\* PrepareService is called when the group has instances to be created.
Begin(g) ==
    /\ pc[g] = "idle"
    /\ Go(g, IF data[g].userid = 0 THEN "user" ELSE "public")
    /\ cur' = [cur EXCEPT ![g] = [data |-> data[g], sp |-> spState]]
    /\ short' = [short EXCEPT ![g] = need[g]]
    /\ peak' = [peak EXCEPT ![g] = Max({@, need[g]})]
    /\ UNCHANGED <<one, need, data, spState, at, misread, bounds>>

\* CreateUser fails when the name is taken; nothing is published then.
CreateUser(g) ==
    /\ pc[g] = "user"
    /\ IF login[g] # 0
       THEN /\ Go(g, "idle") /\ Works
            /\ UNCHANGED <<login, lastUser, cur>>
       ELSE \/ /\ Fails /\ Go(g, "idle")
               /\ UNCHANGED <<login, lastUser, cur>>
            \/ /\ Works /\ Go(g, "public")
               /\ lastUser' = lastUser + 1
               /\ login' = [login EXCEPT ![g] = lastUser + 1]
               /\ cur' = [cur EXCEPT ![g].data.userid = lastUser + 1]
    /\ UNCHANGED <<pub, priv, core, short, at, misread>>

\* GetUserPublicVNet: an error other than "resource not found", two networks
\* of that name among them, is returned.
FindPublic(g) ==
    /\ pc[g] = "public"
    /\ IF Cardinality(PublicOf(User(g))) > 1 THEN Works /\ Return(g)
       ELSE \/ Fails /\ Return(g)
            \/ /\ Works /\ Go(g, "size")
               /\ UNCHANGED <<one, core, cur, short, at, misread>>

\* Mutant of Lacking: only when there is no network yet.
LackingFirst(g, size) == size = 0 /\ short[g] > 0

Lacking(g, size) == short[g] > size

\* Mutant of Missing: what is there is not counted.
MissingAll(g, size) == short[g]

Missing(g, size) == short[g] - size

\* The addresses there are; a network that cannot be read counts for none.
ReadSize(g) ==
    LET nets == PublicOf(User(g))
        size(seen) == IF seen THEN MapThenSumSet(LAMBDA n : pub[n].size, nets) ELSE 0
    IN
    /\ pc[g] = "size"
    /\ \E seen \in BOOLEAN :
          /\ IF seen THEN Works ELSE Fails /\ nets # {}
          /\ misread' = IF seen THEN misread ELSE misread \cup {User(g)}
          /\ IF Lacking(g, size(seen))
             THEN /\ short' = [short EXCEPT ![g] = Missing(g, size(seen))]
                  /\ Go(g, "pool")
             ELSE UNCHANGED short /\ Go(g, "private")
    /\ UNCHANGED <<one, core, cur, at>>

\* ReservePublicIP: the network to reserve to, a new one if the lookup fails
\* for whatever reason; the pool, whose lookup must not fail.
FindPool(g) ==
    LET nets == PublicOf(User(g)) IN
    /\ pc[g] = "pool"
    /\ \/ Fails /\ Return(g)
       \/ /\ \/ \E n \in nets :
                   Works /\ at' = [at EXCEPT ![g] = n] /\ UNCHANGED misread
             \/ /\ nets = {} /\ Works
                /\ at' = [at EXCEPT ![g] = 0] /\ UNCHANGED misread
             \/ /\ nets # {} /\ Fails
                /\ at' = [at EXCEPT ![g] = 0] /\ misread' = misread \cup {User(g)}
          /\ Go(g, "reserve")
          /\ UNCHANGED <<one, core, cur, short>>

\* One address after the other.  A network belongs to the driver's own user
\* until all are reserved and Chown is called.
Reserve(g) ==
    /\ pc[g] = "reserve" /\ short[g] > 0
    /\ \/ Fails /\ Return(g)
       \/ /\ Works
          /\ IF at[g] = 0
             THEN /\ Len(pub) < MaxNets
                  /\ pub' = Append(pub, [name |-> User(g), owner |-> 0, size |-> 1])
                  /\ at' = [at EXCEPT ![g] = Len(pub) + 1]
             ELSE /\ pub' = [pub EXCEPT ![at[g]].size = @ + 1]
                  /\ UNCHANGED at
          /\ short' = [short EXCEPT ![g] = @ - 1]
          /\ UNCHANGED <<login, lastUser, priv, core, pc, cur, misread>>

\* Chown's error is not looked at.
ChownPublic(g) ==
    /\ pc[g] = "reserve" /\ short[g] = 0
    /\ \/ Works /\ pub' = [pub EXCEPT ![at[g]].owner = User(g)]
       \/ Fails /\ UNCHANGED pub
    /\ cur' = [cur EXCEPT ![g].data.public_vn = at[g]]
    /\ Go(g, "private")
    /\ UNCHANGED <<login, lastUser, priv, core, short, at, misread>>

\* Mutant of NoPrivate: only the data is asked.
NoPrivateData(g) == cur[g].data.private_vn = 0

\* Neither the data names a private network nor the user has one.
NoPrivate(g) == cur[g].data.private_vn = 0 /\ PrivateOf(User(g)) = {}

\* A private network is made if there is none, unless the instances need no
\* private addresses or PRIVATE_VN_BAN forbids it; a failing lookup is no
\* error.
FindPrivate(g) ==
    /\ pc[g] = "private"
    /\ \/ Works /\ NoPrivate(g) /\ Go(g, "vlan")
       \/ Works /\ Go(g, "publish")
       \/ Fails /\ Go(g, "publish")
    /\ UNCHANGED <<one, core, cur, short, at, misread>>

\* Mutant of FreeVlans: the bits are not looked at.
FreeVlansAll(sp) == Vlans

\* The VLANs whose bit is not set in the state the request came with.
FreeVlans(sp) == Vlans \ sp.used

\* FindFreeVlan takes the first one, ReservePrivateIP makes the network.
ReservePrivateIP(g) ==
    LET free == FreeVlans(cur[g].sp) IN
    /\ pc[g] = "vlan"
    /\ \/ free = {} /\ Works /\ Return(g)
       \/ Fails /\ Return(g)
       \/ /\ free # {} /\ Works
          /\ Len(priv) < MaxNets
          /\ \E v \in free :
                /\ \A w \in free : v <= w
                /\ priv' = Append(priv, [name |-> User(g), owner |-> 0, vlan |-> v,
                                         live |-> TRUE, basis |-> cur[g].sp.nets])
          /\ at' = [at EXCEPT ![g] = Len(priv) + 1]
          /\ Go(g, "chown_private")
          /\ UNCHANGED <<login, lastUser, pub, core, cur, short, misread>>

ChownPrivate(g) ==
    /\ pc[g] = "chown_private"
    /\ \/ Works /\ priv' = [priv EXCEPT ![at[g]].owner = User(g)]
       \/ Fails /\ UNCHANGED priv
    /\ cur' = [cur EXCEPT ![g].data.private_vn = at[g]]
    /\ Go(g, "publish")
    /\ UNCHANGED <<login, lastUser, pub, core, short, at, misread>>

Finish(g) ==
    /\ Go(g, "idle")
    /\ cur' = [cur EXCEPT ![g] = Idle]
    /\ short' = [short EXCEPT ![g] = 0] /\ at' = [at EXCEPT ![g] = 0]

Publish(g) ==
    /\ pc[g] = "publish"
    /\ data' = [data EXCEPT ![g] = cur[g].data]
    /\ Finish(g)
    /\ UNCHANGED <<one, need, spState, peak, misread, bounds>>

PrepareService(g) ==
    \/ CreateUser(g) \/ FindPublic(g) \/ ReadSize(g) \/ FindPool(g) \/ Reserve(g)
    \/ ChownPublic(g) \/ FindPrivate(g) \/ ReservePrivateIP(g) \/ ChownPrivate(g)
    \/ Publish(g)

-----------------------------------------------------------------------------
(* Down, the monitoring of the provider, the core, and crashes.            *)

\* DeleteUserAndVNets: each lookup or deletion may fail, which is logged;
\* the data of the group is emptied whatever happened.
Down(g) ==
    LET u == data[g].userid
        gone(nets, n, ok) == ok /\ nets = {n}
    IN
    /\ pc[g] = "idle" /\ u # 0
    /\ downs < MaxDowns /\ downs' = downs + 1
    /\ \E p, q, d \in BOOLEAN :
          /\ failures' = failures + Cardinality({i \in 1 .. 3 : ~<<p, q, d>>[i]})
          /\ failures' <= MaxFailures
          /\ pub' = [n \in DOMAIN pub |->
                       IF gone(PublicOf(u), n, p) THEN [pub[n] EXCEPT !.size = 0]
                       ELSE pub[n]]
          /\ priv' = [n \in DOMAIN priv |->
                        IF gone(PrivateOf(u), n, q) THEN [priv[n] EXCEPT !.live = FALSE]
                        ELSE priv[n]]
          /\ IF d THEN /\ login' = [login EXCEPT ![g] = 0]
                       /\ peak' = [peak EXCEPT ![g] = 0]
             ELSE UNCHANGED <<login, peak>>
    /\ data' = [data EXCEPT ![g] = NoData]
    /\ UNCHANGED <<lastUser, need, spState, pc, cur, short, at, misread, crashes>>

\* MonitorNetworks, at the end of a round.
MonitorNetworks ==
    /\ spState' = [used |-> {priv[n].vlan : n \in {k \in DOMAIN priv : priv[k].live}},
                   nets |-> Len(priv)]
    /\ UNCHANGED <<one, need, data, peak, pc, cur, short, at, misread, bounds>>

SetNeed(g) ==
    /\ need' \in {[need EXCEPT ![g] = n] : n \in 0 .. MaxNeed}
    /\ UNCHANGED <<one, data, spState, peak, pc, cur, short, at, misread, bounds>>

\* What PrepareService has not published is forgotten.
Crash ==
    /\ crashes < MaxCrashes /\ crashes' = crashes + 1
    /\ pc' = [g \in Groups |-> "idle"]
    /\ cur' = [g \in Groups |-> Idle]
    /\ short' = [g \in Groups |-> 0] /\ at' = [g \in Groups |-> 0]
    /\ UNCHANGED <<one, core, misread, failures, downs>>

Next ==
    \/ \E g \in Groups : Begin(g) \/ PrepareService(g) \/ Down(g) \/ SetNeed(g)
    \/ MonitorNetworks \/ Crash

Spec == Init /\ [][Next]_vars

\* The core repeats its requests, and a handler runs to its end.
FairSpec ==
    Spec /\ \A g \in Groups : WF_vars(Begin(g)) /\ WF_vars(PrepareService(g))

-----------------------------------------------------------------------------
(* Properties.                                                             *)

Addresses(u) == MapThenSumSet(LAMBDA n : pub[n].size, PublicOf(u))

\* Two networks have the same VLAN only if the later one was chosen from a
\* provider's state monitored before the earlier one was made: a round that
\* has seen a network never gives its VLAN away again.
VlansDistinct ==
    \A i, j \in DOMAIN priv :
        i < j /\ priv[i].live /\ priv[j].live /\ priv[i].vlan = priv[j].vlan
            => priv[j].basis < i

\* The user of a group owns one network of public addresses, and no more of
\* them than its instances ever needed, wherever calls fail or the process
\* dies, unless its network was overlooked by a lookup that failed.
PublicWithinNeed ==
    \A g \in Groups : LET u == login[g] IN
        u # 0 /\ u \notin misread =>
            Cardinality(PublicOf(u)) <= 1 /\ Addresses(u) <= peak[g]

\* A user owns at most one private network; and there is at most one in its
\* name, if the process does not die between making and publishing it.
OnePrivateNet ==
    \A u \in 1 .. MaxUsers :
        /\ Cardinality(PrivateOf(u)) <= 1
        /\ crashes = 0 =>
              Cardinality({n \in DOMAIN priv : priv[n].live /\ priv[n].name = u}) <= 1

\* A user the core does not know of: PrepareService will never get past it.
Unknown(g) == pc[g] = "idle" /\ login[g] # 0 /\ data[g].userid # login[g]

\* A group whose instances wait to be created gets the addresses they need,
\* whichever calls fail on the way, if its user is known and its network
\* never overlooked.
GetsAddresses ==
    \A g \in Groups :
        <>[](~Unknown(g) /\ login[g] \notin misread)
            => []<>(login[g] # 0 /\ Addresses(login[g]) >= need[g])

=============================================================================
