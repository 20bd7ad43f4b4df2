------------------------ MODULE GroupNetworks_proofs ------------------------
(***************************************************************************)
(* For any number of groups, VLANs, failures and crashes: a round that has *)
(* seen a private network never gives its VLAN to another one, a user owns *)
(* at most one private network, and a group's user no more public          *)
(* addresses than the group ever needed.                                   *)
(***************************************************************************)
EXTENDS GroupNetworks, FiniteSetTheorems, TLAPS

\* A provider's state knows the VLANs of all live networks that had been
\* made when it was monitored.
Knows(p, sp) ==
    /\ sp.nets <= Len(p)
    /\ \A n \in 1 .. Len(p) : n <= sp.nets /\ p[n].live => p[n].vlan \in sp.used

Distinct(p) ==
    \A i, j \in 1 .. Len(p) :
        i < j /\ p[i].live /\ p[j].live /\ p[i].vlan = p[j].vlan => p[j].basis < i

\* q is p with owners changed and networks deleted: what a network was chosen
\* from and its VLAN never change, and a deleted one does not come back.
Thins(p, q) ==
    /\ Len(q) = Len(p)
    /\ \A n \in 1 .. Len(p) : /\ q[n].vlan = p[n].vlan
                              /\ q[n].basis = p[n].basis
                              /\ q[n].live => p[n].live

\* VlansDistinct is inductive only with what makes it so: the state every
\* request works on, and the one it will be given, know what was there.
VlanInv ==
    /\ TypeOK
    /\ Knows(priv, spState)
    /\ \A g \in Groups : Knows(priv, cur[g].sp)
    /\ Distinct(priv)

-----------------------------------------------------------------------------

LEMMA Thinned ==
    ASSUME NEW p \in Seq(Nets), NEW q \in Seq(Nets), Thins(p, q)
    PROVE  /\ Distinct(p) => Distinct(q)
           /\ \A sp \in States : Knows(p, sp) => Knows(q, sp)
  <1>1. Distinct(p) => Distinct(q)
    <2> SUFFICES ASSUME Distinct(p), NEW i \in 1 .. Len(q), NEW j \in 1 .. Len(q),
                        i < j, q[i].live, q[j].live, q[i].vlan = q[j].vlan
                 PROVE  q[j].basis < i
      BY DEF Distinct
    <2>1. i \in 1 .. Len(p) /\ j \in 1 .. Len(p)
      BY DEF Thins
    <2>2. p[i].live /\ p[j].live /\ p[i].vlan = p[j].vlan
      BY <2>1 DEF Thins
    <2> QED BY <2>1, <2>2 DEF Distinct, Thins
  <1>2. ASSUME NEW sp \in States, Knows(p, sp) PROVE Knows(q, sp)
    BY <1>2 DEF Knows, Thins
  <1> QED BY <1>1, <1>2

\* A network with a VLAN that is not in the state it was chosen from.
LEMMA Appended ==
    ASSUME NEW p \in Seq(Nets), NEW net \in Nets, NEW sp \in States,
           Knows(p, sp), net.vlan \notin sp.used, net.basis = sp.nets, Distinct(p)
    PROVE  /\ Append(p, net) \in Seq(Nets)
           /\ Distinct(Append(p, net))
           /\ \A s \in States : Knows(p, s) => Knows(Append(p, net), s)
  <1> DEFINE q == Append(p, net)
  <1>1. /\ q \in Seq(Nets) /\ Len(q) = Len(p) + 1 /\ Len(p) \in Nat
        /\ q[Len(p) + 1] = net
        /\ \A n \in 1 .. Len(p) : q[n] = p[n]
    OBVIOUS
  <1> HIDE DEF q
  <1>2. Distinct(q)
    <2> SUFFICES ASSUME NEW i \in 1 .. Len(q), NEW j \in 1 .. Len(q),
                        i < j, q[i].live, q[j].live, q[i].vlan = q[j].vlan
                 PROVE  q[j].basis < i
      BY DEF Distinct
    <2>1. i \in 1 .. Len(p) /\ q[i] = p[i]
      BY <1>1, SMT
    <2>2. CASE j = Len(p) + 1
      <3>1. p[i].vlan \notin sp.used
        BY <1>1, <2>1, <2>2
      <3>2. ~(i <= sp.nets)
        BY <2>1, <3>1 DEF Knows
      <3>3. q[j].basis = sp.nets /\ sp.nets \in Nat
        BY <1>1, <2>2 DEF States
      <3> QED BY <3>2, <3>3, SMT
    <2>3. CASE j \in 1 .. Len(p)
      <3>1. q[j] = p[j]
        BY <1>1, <2>3
      <3>2. p[i].live /\ p[j].live /\ p[i].vlan = p[j].vlan
        BY <2>1, <3>1
      <3> QED BY <2>1, <2>3, <3>1, <3>2 DEF Distinct
    <2>4. j = Len(p) + 1 \/ j \in 1 .. Len(p)
      BY <1>1, SMT
    <2> QED BY <2>2, <2>3, <2>4
  <1>3. ASSUME NEW s \in States, Knows(p, s) PROVE Knows(q, s)
    <2>1. s.nets \in Nat /\ s.nets <= Len(p)
      BY <1>3 DEF Knows, States
    <2>2. s.nets <= Len(q)
      BY <1>1, <2>1, SMT
    <2>3. ASSUME NEW n \in 1 .. Len(q), n <= s.nets, q[n].live
          PROVE  q[n].vlan \in s.used
      <3>1. n \in 1 .. Len(p)
        BY <1>1, <2>1, <2>3, SMT
      <3> QED BY <1>1, <1>3, <2>3, <3>1 DEF Knows
    <2> QED BY <2>2, <2>3 DEF Knows
  <1> QED BY <1>1, <1>2, <1>3 DEF q

\* Steps that leave the networks and the states alone.
LEMMA SameNets ==
    ASSUME VlanInv, UNCHANGED <<priv, spState>>, TypeOK',
           \A g \in Groups : cur'[g].sp \in {cur[g].sp, spState, Idle.sp}
    PROVE  VlanInv'
  <1>1. Knows(priv, Idle.sp)
    BY SMT DEF Knows, Idle, VlanInv, TypeOK
  <1>2. \A g \in Groups : Knows(priv, cur'[g].sp)
    BY <1>1 DEF VlanInv
  <1> QED BY <1>2 DEF VlanInv

\* Steps that change owners or delete networks.
LEMMA ThinnedNets ==
    ASSUME VlanInv, UNCHANGED spState, TypeOK', Thins(priv, priv'),
           \A g \in Groups : cur'[g].sp = cur[g].sp
    PROVE  VlanInv'
  <1>1. priv \in Seq(Nets) /\ priv' \in Seq(Nets)
    BY DEF VlanInv, TypeOK
  <1>2. /\ Distinct(priv')
        /\ \A sp \in States : Knows(priv, sp) => Knows(priv', sp)
    BY <1>1, Thinned DEF VlanInv
  <1>3. spState \in States /\ \A g \in Groups : cur[g].sp \in States
    BY DEF VlanInv, TypeOK, Requests
  <1>4. \A g \in Groups : Knows(priv', cur'[g].sp)
    BY <1>2, <1>3 DEF VlanInv
  <1>5. Knows(priv', spState')
    BY <1>2, <1>3 DEF VlanInv
  <1> QED BY <1>2, <1>4, <1>5 DEF VlanInv


\* Writing one field of the data a request works on.
LEMMA RequestData ==
    ASSUME NEW r \in Requests, NEW n \in Nat
    PROVE  /\ [r EXCEPT !.data.userid = n] \in Requests
           /\ [r EXCEPT !.data.userid = n].sp = r.sp
           /\ [r EXCEPT !.data.public_vn = n] \in Requests
           /\ [r EXCEPT !.data.public_vn = n].sp = r.sp
           /\ [r EXCEPT !.data.private_vn = n] \in Requests
           /\ [r EXCEPT !.data.private_vn = n].sp = r.sp
  BY SMT DEF Requests, Datas

LEMMA SameState ==
    ASSUME NEW c \in [Groups -> Requests], NEW g \in Groups, NEW r \in Requests,
           r.sp = c[g].sp
    PROVE  /\ [c EXCEPT ![g] = r] \in [Groups -> Requests]
           /\ \A h \in Groups : [c EXCEPT ![g] = r][h].sp = c[h].sp
  OBVIOUS

\* Giving a network to a user.
LEMMA Owned ==
    ASSUME NEW u \in Nat
    PROVE  /\ \A r \in Publics : [r EXCEPT !.owner = u] \in Publics
           /\ \A r \in Nets : LET e == [r EXCEPT !.owner = u] IN
                 /\ e \in Nets /\ e.vlan = r.vlan
                 /\ e.basis = r.basis /\ e.live = r.live
  <1>1. \A r \in Publics : [r EXCEPT !.owner = u] \in Publics
    BY SMT DEF Publics
  <1>2. ASSUME NEW r \in Nets
        PROVE  LET e == [r EXCEPT !.owner = u] IN
               /\ e \in Nets /\ e.vlan = r.vlan
               /\ e.basis = r.basis /\ e.live = r.live
    <2> DEFINE e == [r EXCEPT !.owner = u]
    <2>1. DOMAIN r = {"name", "owner", "vlan", "live", "basis"}
      BY SMT DEF Nets
    <2>2. e.vlan = r.vlan /\ e.basis = r.basis /\ e.live = r.live
      BY <2>1
    <2>3. e \in Nets
      BY SMT DEF Nets
    <2> QED BY <2>2, <2>3
  <1> QED BY <1>1, <1>2

\* Writing one element of a sequence, if there is such an element.
LEMMA Written ==
    ASSUME NEW S, NEW p \in Seq(S), NEW i, NEW e, i \in 1 .. Len(p) => e \in S,
           NEW q, q = [p EXCEPT ![i] = e]
    PROVE  /\ q \in Seq(S) /\ Len(q) = Len(p)
           /\ \A n \in 1 .. Len(p) : (n = i => q[n] = e) /\ (n # i => q[n] = p[n])
  <1>1. DOMAIN q = 1 .. Len(p) /\ Len(p) \in Nat
    OBVIOUS
  <1>2. \A n \in 1 .. Len(p) : (n = i => q[n] = e) /\ (n # i => q[n] = p[n])
    OBVIOUS
  <1>3. \A n \in 1 .. Len(p) : q[n] \in S
    BY <1>2
  <1>4. q \in [1 .. Len(p) -> S]
    BY <1>1, <1>3
  <1>5. q \in Seq(S) /\ Len(q) = Len(p)
    BY <1>1, <1>4
  <1> QED BY <1>2, <1>5

-----------------------------------------------------------------------------

\* No step of PrepareService gives a request another state, and the VLAN of
\* a new network is one its request's state does not know.
LEMMA PrepareStep ==
    ASSUME VlanInv, NEW g \in Groups, PrepareService(g)
    PROVE  VlanInv'
  <1> USE NetworkAssumption
  <1>0. TypeOK
    BY DEF VlanInv
  <1>1. ASSUME UNCHANGED <<pub, priv, spState, data, cur, lastUser>>,
               at' = at \/ \E n \in Nat : at' = [at EXCEPT ![g] = n]
        PROVE  VlanInv'
    <2>1. TypeOK'
      BY <1>0, <1>1 DEF TypeOK
    <2> QED BY <1>1, <2>1, SameNets
  <1>2. ASSUME Return(g) PROVE VlanInv'
    BY <1>1, <1>2 DEF Return, one, core
  <1>3. CASE CreateUser(g)
    <2>1. UNCHANGED <<pub, priv, spState, data, at>>
      BY <1>3 DEF CreateUser, core
    <2>2. \/ UNCHANGED <<lastUser, cur>>
          \/ lastUser' = lastUser + 1 /\ cur' = [cur EXCEPT ![g].data.userid = lastUser + 1]
      BY <1>3 DEF CreateUser
    <2>3. CASE UNCHANGED <<lastUser, cur>>
      BY <1>1, <2>1, <2>3
    <2>4. CASE /\ lastUser' = lastUser + 1
               /\ cur' = [cur EXCEPT ![g].data.userid = lastUser + 1]
      <3>1. lastUser + 1 \in Nat
        BY <1>0, SMT DEF TypeOK
      <3>2. cur' \in [Groups -> Requests] /\ \A h \in Groups : cur'[h].sp = cur[h].sp
        <4> DEFINE r == [cur[g] EXCEPT !.data.userid = lastUser + 1]
        <4>1. cur \in [Groups -> Requests] /\ cur[g] \in Requests
          BY <1>0 DEF TypeOK
        <4>2. r \in Requests /\ r.sp = cur[g].sp
          BY <2>4, <3>1, <4>1, RequestData
        <4>3. cur' = [cur EXCEPT ![g] = r]
          BY <2>4, <3>1
        <4> HIDE DEF r
        <4> QED BY <4>1, <4>2, <4>3, SameState
      <3>3. TypeOK'
        BY <1>0, <2>1, <2>4, <3>1, <3>2 DEF TypeOK
      <3> QED BY <2>1, <3>2, <3>3, SameNets
    <2> QED BY <2>2, <2>3, <2>4
  <1>4. CASE FindPublic(g)
    BY <1>1, <1>2, <1>4 DEF FindPublic, one, core
  <1>5. CASE ReadSize(g)
    BY <1>1, <1>5 DEF ReadSize, one, core
  <1>6. CASE FindPool(g)
    <2>1. ASSUME UNCHANGED <<one, core, cur, short>>, NEW n \in Nat,
                 at' = [at EXCEPT ![g] = n]
          PROVE  VlanInv'
      BY <1>1, <2>1 DEF one, core
    <2>2. \A n \in PublicOf(User(g)) : n \in Nat
      BY <1>0, SMT DEF PublicOf, TypeOK
    <2> QED BY <1>2, <1>6, <2>1, <2>2 DEF FindPool
  <1>7. CASE Reserve(g)
    <2>1. CASE Return(g)
      BY <1>2, <2>1
    <2>2. CASE ~Return(g)
      <3>1. UNCHANGED <<priv, spState, data, cur, lastUser>>
        BY <1>7, <2>2 DEF Reserve, core
      <3>2. /\ User(g) \in Nat
            /\ Len(pub) + 1 \in Nat
        BY <1>0, SMT DEF TypeOK, Requests, Datas, User
      <3>3. \/ /\ pub' = Append(pub, [name |-> User(g), owner |-> 0, size |-> 1])
               /\ at' = [at EXCEPT ![g] = Len(pub) + 1]
            \/ /\ pub' = [pub EXCEPT ![at[g]].size = @ + 1]
               /\ at' = at
        BY <1>7, <2>2 DEF Reserve
      <3>4. pub' \in Seq(Publics) /\ at' \in [Groups -> Nat]
        <4>1. pub \in Seq(Publics) /\ at \in [Groups -> Nat]
          BY <1>0 DEF TypeOK
        <4>2. CASE /\ pub' = Append(pub, [name |-> User(g), owner |-> 0, size |-> 1])
                   /\ at' = [at EXCEPT ![g] = Len(pub) + 1]
          <5>1. [name |-> User(g), owner |-> 0, size |-> 1] \in Publics
            BY <3>2, SMT DEF Publics
          <5> QED BY <3>2, <4>1, <4>2, <5>1
        <4>3. CASE pub' = [pub EXCEPT ![at[g]].size = @ + 1] /\ at' = at
          <5> DEFINE i == at[g]
                     e == [pub[i] EXCEPT !.size = @ + 1]
          <5>1. i \in 1 .. Len(pub) => e \in Publics
            <6>1. ASSUME i \in 1 .. Len(pub) PROVE pub[i] \in Publics
              BY <4>1, <6>1
            <6> QED BY <6>1, SMTT(60) DEF Publics
          <5>2. pub' = [pub EXCEPT ![i] = e]
            BY <4>3
          <5>3. pub' \in Seq(Publics)
            <6> HIDE DEF i, e
            <6> QED BY <4>1, <5>1, <5>2, Written
          <5> QED BY <4>1, <4>3, <5>3
        <4> QED BY <3>3, <4>2, <4>3
      <3>5. TypeOK'
        BY <1>0, <3>1, <3>4 DEF TypeOK
      <3> QED BY <3>1, <3>5, SameNets
    <2> QED BY <2>1, <2>2
  <1>8. CASE ChownPublic(g)
    <2>1. UNCHANGED <<priv, spState, data, at, lastUser>>
      BY <1>8 DEF ChownPublic, core
    <2>2. cur' = [cur EXCEPT ![g].data.public_vn = at[g]] /\ at[g] \in Nat
      BY <1>0, <1>8 DEF ChownPublic, TypeOK
    <2>3. cur' \in [Groups -> Requests] /\ \A h \in Groups : cur'[h].sp = cur[h].sp
      <3> DEFINE r == [cur[g] EXCEPT !.data.public_vn = at[g]]
      <3>1. cur \in [Groups -> Requests] /\ cur[g] \in Requests
        BY <1>0 DEF TypeOK
      <3>2. r \in Requests /\ r.sp = cur[g].sp
        BY <2>2, <3>1, RequestData
      <3>3. cur' = [cur EXCEPT ![g] = r]
        BY <2>2
      <3> HIDE DEF r
      <3> QED BY <3>1, <3>2, <3>3, SameState
    <2>4. pub' \in Seq(Publics)
      <3>1. pub' = pub \/ pub' = [pub EXCEPT ![at[g]].owner = User(g)]
        BY <1>8 DEF ChownPublic
      <3>2. User(g) \in Nat /\ pub \in Seq(Publics)
        BY <1>0, SMT DEF TypeOK, Requests, Datas, User
      <3> DEFINE i == at[g]
                 e == [pub[i] EXCEPT !.owner = User(g)]
      <3>3. i \in 1 .. Len(pub) => e \in Publics
        <4>1. ASSUME i \in 1 .. Len(pub) PROVE pub[i] \in Publics
          BY <3>2, <4>1
        <4>2. User(g) \in Nat
          BY <3>2
        <4> QED BY <4>1, <4>2, Owned
      <3>4. pub' = pub \/ pub' = [pub EXCEPT ![i] = e]
        BY <3>1
      <3> HIDE DEF i, e
      <3> QED BY <3>2, <3>3, <3>4, Written
    <2>5. TypeOK'
      BY <1>0, <2>1, <2>3, <2>4 DEF TypeOK
    <2> QED BY <2>1, <2>3, <2>5, SameNets
  <1>9. CASE FindPrivate(g)
    BY <1>1, <1>9 DEF FindPrivate, one, core
  <1>10. CASE ReservePrivateIP(g)
    <2>1. CASE Return(g)
      BY <1>2, <2>1
    <2>2. CASE ~Return(g)
      <3>1. /\ UNCHANGED <<pub, cur, spState, data, lastUser>>
            /\ at' = [at EXCEPT ![g] = Len(priv) + 1]
        BY <1>10, <2>2 DEF ReservePrivateIP, core
      <3>2. PICK v \in FreeVlans(cur[g].sp) :
               priv' = Append(priv, [name |-> User(g), owner |-> 0, vlan |-> v,
                                     live |-> TRUE, basis |-> cur[g].sp.nets])
        BY <1>10, <2>2 DEF ReservePrivateIP
      <3> DEFINE net == [name |-> User(g), owner |-> 0, vlan |-> v,
                         live |-> TRUE, basis |-> cur[g].sp.nets]
      <3>3. cur[g] \in Requests /\ v \in Nat /\ v \notin cur[g].sp.used
        BY <1>0 DEF TypeOK, FreeVlans
      <3>4. /\ net \in Nets /\ cur[g].sp \in States
            /\ net.vlan = v /\ net.basis = cur[g].sp.nets
        BY <3>3, SMT DEF Nets, Requests, States, Datas, User
      <3>5. priv \in Seq(Nets) /\ Knows(priv, cur[g].sp) /\ Distinct(priv)
        BY DEF VlanInv, TypeOK
      <3>6. priv' = Append(priv, net)
        BY <3>2
      <3> HIDE DEF net
      <3>7. /\ priv' \in Seq(Nets) /\ Distinct(priv')
            /\ \A s \in States : Knows(priv, s) => Knows(priv', s)
        BY <3>3, <3>4, <3>5, <3>6, Appended
      <3>8. Len(priv) + 1 \in Nat
        BY <3>5, SMT
      <3>9. TypeOK'
        BY <1>0, <3>1, <3>7, <3>8 DEF TypeOK
      <3>10. spState \in States /\ \A h \in Groups : cur[h].sp \in States
        BY <1>0 DEF TypeOK, Requests
      <3> QED BY <3>1, <3>7, <3>9, <3>10 DEF VlanInv
    <2> QED BY <2>1, <2>2
  <1>11. CASE ChownPrivate(g)
    <2>1. UNCHANGED <<pub, spState, data, at, lastUser>>
      BY <1>11 DEF ChownPrivate, core
    <2>2. cur' = [cur EXCEPT ![g].data.private_vn = at[g]] /\ at[g] \in Nat
      BY <1>0, <1>11 DEF ChownPrivate, TypeOK
    <2>3. cur' \in [Groups -> Requests] /\ \A h \in Groups : cur'[h].sp = cur[h].sp
      <3> DEFINE r == [cur[g] EXCEPT !.data.private_vn = at[g]]
      <3>1. cur \in [Groups -> Requests] /\ cur[g] \in Requests
        BY <1>0 DEF TypeOK
      <3>2. r \in Requests /\ r.sp = cur[g].sp
        BY <2>2, <3>1, RequestData
      <3>3. cur' = [cur EXCEPT ![g] = r]
        BY <2>2
      <3> HIDE DEF r
      <3> QED BY <3>1, <3>2, <3>3, SameState
    <2>4. priv' \in Seq(Nets) /\ Thins(priv, priv')
      <3>1. priv' = priv \/ priv' = [priv EXCEPT ![at[g]].owner = User(g)]
        BY <1>11 DEF ChownPrivate
      <3>2. User(g) \in Nat /\ priv \in Seq(Nets)
        BY <1>0, SMT DEF TypeOK, Requests, Datas, User
      <3> DEFINE i == at[g]
                 e == [priv[i] EXCEPT !.owner = User(g)]
      <3>3. i \in 1 .. Len(priv) =>
               /\ e \in Nets /\ e.vlan = priv[i].vlan
               /\ e.basis = priv[i].basis /\ e.live = priv[i].live
        <4>1. ASSUME i \in 1 .. Len(priv) PROVE priv[i] \in Nets
          BY <3>2, <4>1
        <4>2. User(g) \in Nat
          BY <3>2
        <4> QED BY <4>1, <4>2, Owned
      <3>4. CASE priv' = priv
        BY <3>2, <3>4 DEF Thins
      <3>5. CASE priv' = [priv EXCEPT ![i] = e]
        <4> HIDE DEF i, e
        <4>1. /\ priv' \in Seq(Nets) /\ Len(priv') = Len(priv)
              /\ \A n \in 1 .. Len(priv) : (n = i => priv'[n] = e) /\ (n # i => priv'[n] = priv[n])
          <5>1. i \in 1 .. Len(priv) => e \in Nets
            BY <3>3
          <5>2. priv \in Seq(Nets)
            BY <3>2
          <5>3. priv' \in Seq(Nets) /\ Len(priv') = Len(priv)
            <6> DEFINE S == Nets
                       p == priv
                       q == priv'
            <6>1. p \in Seq(S) /\ (i \in 1 .. Len(p) => e \in S) /\ q = [p EXCEPT ![i] = e]
              BY <3>5, <5>1, <5>2
            <6> HIDE DEF S, p, q
            <6>2. q \in Seq(S)
              BY <6>1, Written
            <6>3. Len(q) = Len(p)
              BY <6>1, Written
            <6> QED BY <6>2, <6>3 DEF S, p, q
          <5>4. \A n \in 1 .. Len(priv) : n = i => priv'[n] = e
            BY <3>5, <5>2
          <5>5. \A n \in 1 .. Len(priv) : n # i => priv'[n] = priv[n]
            BY <3>5, <5>2
          <5> QED BY <5>3, <5>4, <5>5
        <4> QED BY <3>3, <4>1 DEF Thins
      <3> QED BY <3>1, <3>4, <3>5
    <2>5. TypeOK'
      BY <1>0, <2>1, <2>3, <2>4 DEF TypeOK
    <2> QED BY <2>1, <2>3, <2>4, <2>5, ThinnedNets
  <1>12. CASE Publish(g)
    <2>1. /\ UNCHANGED <<pub, priv, spState, lastUser>>
          /\ data' = [data EXCEPT ![g] = cur[g].data]
          /\ cur' = [cur EXCEPT ![g] = Idle]
          /\ at' = [at EXCEPT ![g] = 0]
      BY <1>12 DEF Publish, Finish, one
    <2>2. Idle \in Requests
      BY SMT DEF Idle, NoData, Requests, States, Datas
    <2>3. cur[g].data \in Datas
      BY <1>0 DEF TypeOK, Requests
    <2>4. TypeOK'
      BY <1>0, <2>1, <2>2, <2>3 DEF TypeOK
    <2>5. \A h \in Groups : cur'[h].sp \in {cur[h].sp, Idle.sp}
      BY <1>0, <2>1 DEF TypeOK
    <2> QED BY <2>1, <2>4, <2>5, SameNets
  <1> QED
    BY <1>3, <1>4, <1>5, <1>6, <1>7, <1>8, <1>9, <1>10, <1>11, <1>12
    DEF PrepareService

LEMMA Deleted ==
    /\ \A r \in Publics : [r EXCEPT !.size = 0] \in Publics
    /\ \A r \in Nets : LET e == [r EXCEPT !.live = FALSE] IN
          e \in Nets /\ ~e.live /\ e.vlan = r.vlan /\ e.basis = r.basis
  <1>1. \A r \in Publics : [r EXCEPT !.size = 0] \in Publics
    BY SMT DEF Publics
  <1>2. ASSUME NEW r \in Nets
        PROVE  LET e == [r EXCEPT !.live = FALSE] IN
               e \in Nets /\ ~e.live /\ e.vlan = r.vlan /\ e.basis = r.basis
    <2> DEFINE e == [r EXCEPT !.live = FALSE]
    <2>1. e \in Nets
      <3>1. ASSUME NEW b \in BOOLEAN PROVE [r EXCEPT !.live = b] \in Nets
        BY SMT DEF Nets
      <3> QED BY <3>1
    <2>2. e.vlan = r.vlan /\ e.basis = r.basis
      BY SMT DEF Nets
    <2>3. DOMAIN r = {"name", "owner", "vlan", "live", "basis"}
      BY SMT DEF Nets
    <2>4. e.live = FALSE
      BY <2>3
    <2> QED BY <2>1, <2>2, <2>4
  <1> QED BY <1>1, <1>2

\* Rewriting the elements of a sequence.
LEMMA Rewritten ==
    ASSUME NEW S, NEW p \in Seq(S), NEW P, NEW f,
           \A n \in 1 .. Len(p) : f[n] \in S,
           NEW q, q = [n \in DOMAIN p |-> IF n \in P THEN f[n] ELSE p[n]]
    PROVE  /\ q \in Seq(S) /\ Len(q) = Len(p)
           /\ \A n \in 1 .. Len(p) : q[n] = p[n] \/ q[n] = f[n]
  <1>1. DOMAIN q = 1 .. Len(p) /\ Len(p) \in Nat
    OBVIOUS
  <1>2. \A n \in 1 .. Len(p) : (q[n] = p[n] \/ q[n] = f[n]) /\ q[n] \in S
    OBVIOUS
  <1>3. q \in [1 .. Len(p) -> S]
    BY <1>1, <1>2
  <1> QED BY <1>1, <1>2, <1>3

\* Down empties the group's data and deletes some of its networks.
LEMMA DownStep ==
    ASSUME VlanInv, NEW g \in Groups, Down(g)
    PROVE  VlanInv'
  <1>0. TypeOK
    BY DEF VlanInv
  <1>1. PICK P, Q :
          /\ pub' = [n \in DOMAIN pub |->
                       IF n \in P THEN [pub[n] EXCEPT !.size = 0] ELSE pub[n]]
          /\ priv' = [n \in DOMAIN priv |->
                        IF n \in Q THEN [priv[n] EXCEPT !.live = FALSE] ELSE priv[n]]
    <2> DEFINE u == data[g].userid
               only(nets, ok) == IF ok THEN {n \in nets : nets = {n}} ELSE {}
    <2>1. PICK p, q \in BOOLEAN :
            /\ pub' = [n \in DOMAIN pub |->
                         IF p /\ PublicOf(u) = {n} THEN [pub[n] EXCEPT !.size = 0]
                         ELSE pub[n]]
            /\ priv' = [n \in DOMAIN priv |->
                          IF q /\ PrivateOf(u) = {n} THEN [priv[n] EXCEPT !.live = FALSE]
                          ELSE priv[n]]
      BY DEF Down
    <2>2. /\ pub' = [n \in DOMAIN pub |->
                       IF n \in only(PublicOf(u), p) THEN [pub[n] EXCEPT !.size = 0]
                       ELSE pub[n]]
          /\ priv' = [n \in DOMAIN priv |->
                        IF n \in only(PrivateOf(u), q) THEN [priv[n] EXCEPT !.live = FALSE]
                        ELSE priv[n]]
      BY <2>1
    <2> QED BY <2>2
  <1>2. /\ UNCHANGED <<spState, cur, at, lastUser>>
        /\ data' = [data EXCEPT ![g] = NoData]
    BY DEF Down
  <1>3. pub' \in Seq(Publics)
    <2> DEFINE f == [n \in 1 .. Len(pub) |-> [pub[n] EXCEPT !.size = 0]]
    <2>1. pub \in Seq(Publics)
      BY <1>0 DEF TypeOK
    <2>2. \A n \in 1 .. Len(pub) : f[n] \in Publics
      BY <2>1, Deleted
    <2>3. pub' = [n \in DOMAIN pub |-> IF n \in P THEN f[n] ELSE pub[n]]
      BY <1>1, <2>1
    <2> HIDE DEF f
    <2> QED BY <2>1, <2>2, <2>3, Rewritten
  <1>4. priv' \in Seq(Nets) /\ Thins(priv, priv')
    <2> DEFINE f == [n \in 1 .. Len(priv) |-> [priv[n] EXCEPT !.live = FALSE]]
    <2>1. priv \in Seq(Nets)
      BY <1>0 DEF TypeOK
    <2>2. ASSUME NEW n \in 1 .. Len(priv)
          PROVE  /\ f[n] \in Nets /\ ~f[n].live
                 /\ f[n].vlan = priv[n].vlan /\ f[n].basis = priv[n].basis
      <3>1. priv[n] \in Nets /\ f[n] = [priv[n] EXCEPT !.live = FALSE]
        BY <2>1
      <3> QED BY <3>1, Deleted
    <2>3. priv' = [n \in DOMAIN priv |-> IF n \in Q THEN f[n] ELSE priv[n]]
      BY <1>1, <2>1
    <2> HIDE DEF f
    <2>4. /\ priv' \in Seq(Nets) /\ Len(priv') = Len(priv)
          /\ \A n \in 1 .. Len(priv) : priv'[n] = priv[n] \/ priv'[n] = f[n]
      BY <2>1, <2>2, <2>3, Rewritten
    <2> QED BY <2>2, <2>4 DEF Thins
  <1>5. NoData \in Datas
    BY SMT DEF NoData, Datas
  <1>6. TypeOK'
    BY <1>0, <1>2, <1>3, <1>4, <1>5 DEF TypeOK
  <1> QED BY <1>2, <1>4, <1>6, ThinnedNets

\* A monitored state knows all there is.
LEMMA MonitorStep ==
    ASSUME VlanInv, MonitorNetworks
    PROVE  VlanInv'
  <1>0. TypeOK
    BY DEF VlanInv
  <1>1. /\ UNCHANGED <<priv, pub, data, cur, at, lastUser>>
        /\ spState' = [used |-> {priv[n].vlan : n \in {k \in DOMAIN priv : priv[k].live}},
                       nets |-> Len(priv)]
    BY DEF MonitorNetworks, one
  <1>2. \A n \in 1 .. Len(priv) : priv[n] \in Nets /\ priv[n].vlan \in Nat
    <2>1. \A n \in 1 .. Len(priv) : priv[n] \in Nets
      BY <1>0 DEF TypeOK
    <2>2. \A net \in Nets : net.vlan \in Nat
      BY DEF Nets
    <2> QED BY <2>1, <2>2
  <1>3. spState' \in States
    BY <1>0, <1>1, <1>2, SMT DEF TypeOK, States
  <1>4. Knows(priv, spState')
    <2>1. Len(priv) \in Nat /\ DOMAIN priv = 1 .. Len(priv)
      BY <1>0 DEF TypeOK
    <2>2. spState'.nets <= Len(priv)
      BY <1>1, <2>1
    <2>3. ASSUME NEW n \in 1 .. Len(priv), priv[n].live
          PROVE  priv[n].vlan \in spState'.used
      BY <1>1, <2>1, <2>3
    <2> QED BY <2>2, <2>3 DEF Knows
  <1>5. TypeOK'
    BY <1>0, <1>1, <1>3 DEF TypeOK
  <1> QED BY <1>1, <1>4, <1>5 DEF VlanInv

LEMMA VlanInit == Init => VlanInv
  <1> SUFFICES ASSUME Init PROVE VlanInv
    OBVIOUS
  <1>1. /\ priv = << >> /\ pub = << >> /\ lastUser = 0
        /\ spState = Idle.sp
        /\ data = [g \in Groups |-> NoData]
        /\ cur = [g \in Groups |-> Idle]
        /\ at = [g \in Groups |-> 0]
    BY DEF Init, Idle
  <1>2. NoData \in Datas /\ Idle \in Requests /\ Idle.sp \in States
    BY SMT DEF NoData, Datas, Idle, Requests, States
  <1>3. TypeOK
    BY <1>1, <1>2 DEF TypeOK
  <1>4. Knows(<< >>, Idle.sp) /\ Distinct(<< >>)
    BY SMT DEF Knows, Distinct, Idle
  <1> QED BY <1>1, <1>3, <1>4 DEF VlanInv

LEMMA VlanStep == VlanInv /\ [Next]_vars => VlanInv'
  <1> SUFFICES ASSUME VlanInv, [Next]_vars PROVE VlanInv'
    OBVIOUS
  <1>0. TypeOK
    BY DEF VlanInv
  <1>1. ASSUME NEW g \in Groups, Begin(g) PROVE VlanInv'
    <2>1. /\ UNCHANGED <<pub, priv, spState, data, at, lastUser>>
          /\ cur' = [cur EXCEPT ![g] = [data |-> data[g], sp |-> spState]]
      BY <1>1 DEF Begin, one
    <2>2. [data |-> data[g], sp |-> spState] \in Requests
      BY <1>0, <1>1, SMT DEF TypeOK, Requests
    <2>3. TypeOK'
      BY <1>0, <2>1, <2>2 DEF TypeOK
    <2>4. \A h \in Groups : cur'[h].sp \in {cur[h].sp, spState}
      BY <1>0, <2>1 DEF TypeOK
    <2> QED BY <2>1, <2>3, <2>4, SameNets
  <1>2. ASSUME NEW g \in Groups, SetNeed(g) PROVE VlanInv'
    <2>1. UNCHANGED <<pub, priv, spState, data, cur, at, lastUser>>
      BY <1>2 DEF SetNeed, one
    <2>2. TypeOK'
      BY <1>0, <2>1 DEF TypeOK
    <2> QED BY <2>1, <2>2, SameNets
  <1>3. CASE Crash
    <2>1. /\ UNCHANGED <<pub, priv, spState, data, lastUser>>
          /\ cur' = [g \in Groups |-> Idle] /\ at' = [g \in Groups |-> 0]
      BY <1>3 DEF Crash, one, core
    <2>2. Idle \in Requests
      BY SMT DEF Idle, NoData, Requests, States, Datas
    <2>3. TypeOK'
      BY <1>0, <2>1, <2>2 DEF TypeOK
    <2> QED BY <2>1, <2>3, SameNets
  <1>4. CASE UNCHANGED vars
    <2>1. UNCHANGED <<pub, priv, spState, data, cur, at, lastUser>>
      BY <1>4 DEF vars, one, core
    <2>2. TypeOK'
      BY <1>0, <2>1 DEF TypeOK
    <2> QED BY <2>1, <2>2, SameNets
  <1> QED
    BY <1>1, <1>2, <1>3, <1>4, PrepareStep, DownStep, MonitorStep DEF Next

\* Whatever calls fail, wherever the process dies and however the requests of
\* the groups interleave, FindFreeVlan never gives away the VLAN of a network
\* that the round of monitoring it worked from had seen.
THEOREM VlansNeverShared == Spec => []VlansDistinct
  <1>1. VlanInv => VlansDistinct
    <2> SUFFICES ASSUME VlanInv PROVE VlansDistinct
      OBVIOUS
    <2>1. DOMAIN priv = 1 .. Len(priv) /\ Distinct(priv)
      BY DEF VlanInv, TypeOK
    <2> QED BY <2>1 DEF Distinct, VlansDistinct
  <1> QED BY <1>1, VlanInit, VlanStep, PTL DEF Spec

\* Networks, the provider's state and what requests know of both keep their
\* types.
THEOREM TypeCorrect == Spec => []TypeOK
  <1>1. VlanInv => TypeOK
    BY DEF VlanInv
  <1> QED BY <1>1, VlanInit, VlanStep, PTL DEF Spec

-----------------------------------------------------------------------------
(* One private network.                                                    *)

Steps == {"idle", "user", "public", "size", "pool", "reserve", "private", "vlan",
          "chown_private", "publish"}

\* A request has a user as soon as it is past CreateUser, and one about to
\* make a private network or to give it away owns none yet.
At(g) ==
    /\ pc[g] \in {"idle", "user"} <=> User(g) = 0
    /\ pc[g] = "user" => data[g].userid = 0
    /\ pc[g] = "vlan" => cur[g].data.private_vn = 0
    /\ pc[g] \in {"vlan", "chown_private"} => PrivateOf(User(g)) = {}
    /\ pc[g] = "chown_private" =>
          at[g] \in 1 .. Len(priv) /\ priv[at[g]].name = User(g)

\* No two groups have a user in common, and none has a user to come.
Apart ==
    /\ \A g \in Groups : data[g].userid <= lastUser /\ User(g) <= lastUser
    /\ \A n \in 1 .. Len(priv) : priv[n].name <= lastUser
    /\ \A g, h \in Groups : \A u \in {data[g].userid, User(g)} :
          g # h /\ u # 0 => u \notin {data[h].userid, User(h)}

\* If the process never died, a private network in the name of a group's user
\* is one the group's data names or is about to.
Kept ==
    crashes = 0 =>
        \A n \in 1 .. Len(priv), g \in Groups : priv[n].live /\ priv[n].name # 0 =>
            /\ priv[n].name = User(g) =>
                  cur[g].data.private_vn # 0 \/ (pc[g] = "chown_private" /\ at[g] = n)
            /\ priv[n].name = data[g].userid /\ pc[g] = "idle" =>
                  data[g].private_vn # 0

Unique ==
    \A m, n \in 1 .. Len(priv) :
        /\ priv[m].live /\ priv[n].live
        /\ priv[m].name = priv[n].name /\ priv[m].name # 0
        /\ crashes = 0 \/ (priv[m].owner = priv[m].name /\ priv[n].owner = priv[n].name)
        => m = n

PrivInv ==
    /\ pc \in [Groups -> Steps] /\ crashes \in Nat
    /\ \A g \in Groups : At(g)
    /\ Apart
    /\ Kept
    /\ Unique

-----------------------------------------------------------------------------
\* The steps that make no network, move no user and end no request.
LEMMA QuietPriv ==
    ASSUME PrivInv, TypeOK, NEW g \in Groups,
           UNCHANGED <<priv, data, lastUser, crashes>>,
           pc[g] \notin {"idle", "user", "chown_private"},
           NEW s \in Steps \ {"idle", "user", "vlan", "chown_private"},
           pc' = [pc EXCEPT ![g] = s],
           \A h \in Groups : /\ User(h)' = User(h)
                             /\ cur'[h].data.private_vn = cur[h].data.private_vn
                             /\ h # g => at'[h] = at[h]
    PROVE  PrivInv'
  <1>1. /\ pc' \in [Groups -> Steps] /\ crashes' \in Nat
        /\ pc'[g] = s /\ \A h \in Groups \ {g} : pc'[h] = pc[h]
    BY DEF PrivInv
  <1>2. ASSUME NEW h \in Groups PROVE At(h)'
    <2>1. At(h)
      BY DEF PrivInv
    <2>2. PrivateOf(User(h))' = PrivateOf(User(h))
      BY DEF PrivateOf
    <2> QED BY <1>1, <2>1, <2>2 DEF At
  <1>3. Apart'
    BY DEF PrivInv, Apart
  <1>4. Kept'
    BY <1>1 DEF PrivInv, Kept
  <1>5. Unique'
    BY DEF PrivInv, Unique
  <1> QED BY <1>1, <1>2, <1>3, <1>4, <1>5 DEF PrivInv

\* What is known of the request of another group.
LEMMA OtherAt ==
    ASSUME NEW h \in Groups, At(h),
           pc'[h] = pc[h], User(h)' = User(h), data'[h] = data[h],
           cur'[h].data.private_vn = cur[h].data.private_vn, at'[h] = at[h],
           PrivateOf(User(h)) = {} => PrivateOf(User(h))' = {},
           Len(priv) \in Nat, Len(priv') \in Nat, Len(priv) <= Len(priv'),
           \A n \in 1 .. Len(priv) : priv'[n].name = priv[n].name
    PROVE  At(h)'
  <1>1. \A n \in 1 .. Len(priv) : n \in 1 .. Len(priv')
    OBVIOUS
  <1> QED BY <1>1 DEF At

LEMMA BeginPriv ==
    ASSUME PrivInv, TypeOK, NEW g \in Groups, Begin(g)
    PROVE  PrivInv'
  <1>1. /\ UNCHANGED <<priv, data, lastUser, crashes, at>>
        /\ pc[g] = "idle" /\ pc' = [pc EXCEPT ![g] = IF data[g].userid = 0 THEN "user" ELSE "public"]
        /\ cur' = [cur EXCEPT ![g] = [data |-> data[g], sp |-> spState]]
    BY DEF Begin, one, bounds, Go
  <1>2. /\ pc' \in [Groups -> Steps] /\ crashes' \in Nat
        /\ pc'[g] = IF data[g].userid = 0 THEN "user" ELSE "public"
        /\ \A h \in Groups \ {g} : pc'[h] = pc[h] /\ cur'[h] = cur[h]
        /\ cur'[g].data = data[g]
    BY <1>1, SMT DEF PrivInv, TypeOK, Steps
  <1>3. ASSUME NEW h \in Groups PROVE At(h)'
    <2>1. At(h)
      BY DEF PrivInv
    <2>2. CASE h = g
      BY <1>1, <1>2, <2>2 DEF At, User
    <2>3. CASE h # g
      <3>1. User(h)' = User(h)
        BY <1>2, <2>3 DEF User
      <3>2. PrivateOf(User(h))' = PrivateOf(User(h))
        BY <1>1, <3>1 DEF PrivateOf
      <3> QED BY <1>1, <1>2, <2>1, <2>3, <3>1, <3>2 DEF At
    <2> QED BY <2>2, <2>3
  <1>4. Apart'
    <2>1. \A h \in Groups : User(h)' \in {User(h), data[h].userid}
      BY <1>2 DEF User
    <2> QED BY <1>1, <2>1 DEF PrivInv, Apart
  <1>5. Kept'
    BY <1>1, <1>2 DEF PrivInv, Kept, User
  <1>6. Unique'
    BY <1>1 DEF PrivInv, Unique
  <1> QED BY <1>2, <1>3, <1>4, <1>5, <1>6 DEF PrivInv

LEMMA CreateUserPriv ==
    ASSUME PrivInv, TypeOK, NEW g \in Groups, CreateUser(g)
    PROVE  PrivInv'
  <1>1. /\ UNCHANGED <<priv, data, crashes, at>> /\ pc[g] = "user"
        /\ \/ pc' = [pc EXCEPT ![g] = "idle"] /\ UNCHANGED <<lastUser, cur>>
           \/ /\ pc' = [pc EXCEPT ![g] = "public"] /\ lastUser' = lastUser + 1
              /\ cur' = [cur EXCEPT ![g].data.userid = lastUser + 1]
    BY DEF CreateUser, core, Go, Works, Fails, bounds
  <1>2. At(g) /\ User(g) = 0 /\ data[g].userid = 0
    BY <1>1 DEF PrivInv, At
  <1>3. CASE pc' = [pc EXCEPT ![g] = "idle"] /\ UNCHANGED <<lastUser, cur>>
    <2>1. /\ pc' \in [Groups -> Steps] /\ pc'[g] = "idle"
          /\ \A h \in Groups \ {g} : pc'[h] = pc[h]
      BY <1>3 DEF PrivInv, Steps
    <2>2. ASSUME NEW h \in Groups PROVE At(h)'
      <3>1. At(h) /\ User(h)' = User(h) /\ PrivateOf(User(h))' = PrivateOf(User(h))
        BY <1>1, <1>3 DEF PrivInv, User, PrivateOf
      <3>2. CASE h = g
        BY <1>2, <2>1, <3>1, <3>2 DEF At
      <3>3. CASE h # g
        BY <1>1, <1>3, <2>1, <3>1, <3>3 DEF At
      <3> QED BY <3>2, <3>3
    <2>3. \A h \in Groups : User(h)' = User(h)
      BY <1>3 DEF User
    <2>4. Apart' /\ Unique'
      BY <1>1, <1>3, <2>3 DEF PrivInv, Apart, Unique
    <2>5. Kept'
      BY <1>1, <1>2, <1>3, <2>1, <2>3 DEF PrivInv, Kept
    <2> QED BY <1>1, <2>1, <2>2, <2>4, <2>5 DEF PrivInv
  <1>4. CASE /\ pc' = [pc EXCEPT ![g] = "public"] /\ lastUser' = lastUser + 1
             /\ cur' = [cur EXCEPT ![g].data.userid = lastUser + 1]
    <2>1. /\ pc' \in [Groups -> Steps] /\ pc'[g] = "public"
          /\ \A h \in Groups \ {g} : pc'[h] = pc[h] /\ cur'[h] = cur[h]
      BY <1>4 DEF PrivInv, TypeOK, Steps
    <2>2. /\ User(g)' = lastUser + 1
          /\ cur'[g].data.private_vn = cur[g].data.private_vn
          /\ \A h \in Groups \ {g} : User(h)' = User(h)
      <3>1. cur[g] \in Requests /\ cur'[g] = [cur[g] EXCEPT !.data.userid = lastUser + 1]
        BY <1>4 DEF TypeOK
      <3>2. /\ cur'[g].data.userid = lastUser + 1
            /\ cur'[g].data.private_vn = cur[g].data.private_vn
        BY <3>1, SMT DEF Requests, Datas
      <3> QED BY <2>1, <3>2 DEF User
    <2>3. lastUser \in Nat /\ \A h \in Groups : data[h].userid \in Nat
      BY SMT DEF TypeOK, Datas
    <2>4. ASSUME NEW h \in Groups PROVE At(h)'
      <3>1. CASE h = g
        BY <1>1, <2>1, <2>2, <2>3, <3>1 DEF At
      <3>2. CASE h # g
        <4>1. PrivateOf(User(h))' = PrivateOf(User(h)) /\ At(h)
          BY <1>1, <2>2, <3>2 DEF PrivInv, PrivateOf
        <4> QED BY <1>1, <2>1, <2>2, <3>2, <4>1 DEF At
      <3> QED BY <3>1, <3>2
    <2>5. \A n \in 1 .. Len(priv) : priv[n].name \in Nat
      <3>1. \A n \in 1 .. Len(priv) : priv[n] \in Nets
        BY DEF TypeOK
      <3> QED BY <3>1 DEF Nets
    <2>6. \A h \in Groups : User(h) \in Nat
      BY SMT DEF TypeOK, Requests, Datas, User
    <2>7. Apart'
      <3>1. /\ \A h \in Groups : data[h].userid <= lastUser /\ User(h) <= lastUser
            /\ \A n \in 1 .. Len(priv) : priv[n].name <= lastUser
            /\ \A f, h \in Groups : \A u \in {data[f].userid, User(f)} :
                  f # h /\ u # 0 => u \notin {data[h].userid, User(h)}
        BY DEF PrivInv, Apart
      <3>2. \A h \in Groups : data'[h].userid <= lastUser' /\ User(h)' <= lastUser'
        BY <1>1, <1>4, <2>2, <2>3, <2>6, <3>1, SMT
      <3>3. \A n \in 1 .. Len(priv') : priv'[n].name <= lastUser'
        BY <1>1, <1>4, <2>3, <2>5, <3>1, SMT
      <3>4. ASSUME NEW f \in Groups, NEW h \in Groups, f # h,
                   NEW u \in {data[f].userid, User(f)'}, u # 0
            PROVE  u \notin {data[h].userid, User(h)'}
        <4>1. CASE u = lastUser + 1
          <5>1. /\ data[f].userid # u /\ data[h].userid # u /\ User(h) # u
            BY <2>3, <2>6, <3>1, <4>1, SMT
          <5>2. f = g
            <6>1. User(f) # u
              BY <2>3, <2>6, <3>1, <4>1, SMT
            <6> QED BY <2>2, <3>4, <5>1, <6>1
          <5> QED BY <2>2, <3>4, <5>1, <5>2
        <4>2. CASE u # lastUser + 1
          <5>1. f = g => u = data[f].userid
            BY <2>2, <4>2
          <5>2. u \in {data[f].userid, User(f)}
            BY <2>2, <5>1
          <5>3. u \notin {data[h].userid, User(h)}
            BY <3>1, <3>4, <5>2
          <5> QED BY <2>2, <4>2, <5>3
        <4> QED BY <4>1, <4>2
      <3> QED BY <1>1, <3>2, <3>3, <3>4 DEF Apart
    <2>8. Kept'
      <3>1. \A n \in 1 .. Len(priv) : priv[n].name # User(g)'
        BY <2>2, <2>3, <2>5, SMT DEF PrivInv, Apart
      <3> QED BY <1>1, <2>1, <2>2, <3>1 DEF PrivInv, Kept
    <2>9. Unique'
      BY <1>1 DEF PrivInv, Unique
    <2> QED BY <1>1, <2>1, <2>4, <2>7, <2>8, <2>9 DEF PrivInv
  <1> QED BY <1>1, <1>3, <1>4

LEMMA ReservePriv ==
    ASSUME PrivInv, TypeOK, NEW g \in Groups, ReservePrivateIP(g), ~Return(g)
    PROVE  PrivInv'
  <1>1. /\ UNCHANGED <<data, cur, lastUser, crashes>>
        /\ pc[g] = "vlan" /\ pc' = [pc EXCEPT ![g] = "chown_private"]
        /\ at' = [at EXCEPT ![g] = Len(priv) + 1]
    BY DEF ReservePrivateIP, core, Go, Works, Fails, bounds
  <1>2. /\ User(g) # 0 /\ cur[g].data.private_vn = 0 /\ PrivateOf(User(g)) = {}
    BY <1>1 DEF PrivInv, At
  <1>3. PICK net : /\ net.name = User(g) /\ net.owner = 0
                   /\ priv' = Append(priv, net)
    <2>1. PICK v \in FreeVlans(cur[g].sp) :
             priv' = Append(priv, [name |-> User(g), owner |-> 0, vlan |-> v,
                                   live |-> TRUE, basis |-> cur[g].sp.nets])
      BY DEF ReservePrivateIP
    <2> QED BY <2>1
  <1>4. priv \in Seq(Nets) /\ User(g) \in Nat /\ at \in [Groups -> Nat]
    BY SMT DEF TypeOK, Requests, Datas, User
  <1> DEFINE new == Len(priv) + 1
  <1>5. /\ Len(priv) \in Nat /\ Len(priv') = new
        /\ DOMAIN priv = 1 .. Len(priv) /\ DOMAIN priv' = 1 .. new
        /\ priv'[new] = net
        /\ \A n \in 1 .. Len(priv) : priv'[n] = priv[n]
    BY <1>3, <1>4
  <1>6. /\ pc' \in [Groups -> Steps] /\ crashes' \in Nat
        /\ pc'[g] = "chown_private" /\ at'[g] = new
        /\ \A h \in Groups \ {g} : pc'[h] = pc[h] /\ at'[h] = at[h]
        /\ \A h \in Groups : User(h)' = User(h)
    BY <1>1, <1>4 DEF PrivInv, Steps, User
  <1>7. \A u : u # 0 /\ PrivateOf(u) = {} => PrivateOf(u)' = {}
    <2> SUFFICES ASSUME NEW u, u # 0, PrivateOf(u) = {}, NEW n \in PrivateOf(u)'
                 PROVE  FALSE
      OBVIOUS
    <2>1. n \in 1 .. new /\ priv'[n].name = u /\ priv'[n].owner = u /\ priv'[n].live
      BY <1>5 DEF PrivateOf
    <2>2. n # new
      BY <1>3, <1>5, <2>1
    <2>3. n \in 1 .. Len(priv)
      BY <1>5, <2>1, <2>2, SMT
    <2>4. priv[n].name = u /\ priv[n].owner = u /\ priv[n].live
      BY <1>5, <2>1, <2>3
    <2> QED BY <1>5, <2>3, <2>4 DEF PrivateOf
  <1>8. ASSUME NEW h \in Groups PROVE At(h)'
    <2>1. At(h)
      BY DEF PrivInv
    <2>2. CASE h = g
      <3>1. new \in 1 .. Len(priv') /\ priv'[new].name = User(g)'
        BY <1>3, <1>5, <1>6, SMT
      <3>2. PrivateOf(User(g))' = {}
        BY <1>2, <1>6, <1>7
      <3> QED BY <1>2, <1>6, <2>2, <3>1, <3>2 DEF At
    <2>3. CASE h # g
      <3>1. CASE User(h) = 0
        BY <1>1, <1>6, <2>1, <2>3, <3>1 DEF At
      <3>2. CASE User(h) # 0
        <4>1. PrivateOf(User(h)) = {} => PrivateOf(User(h))' = {}
          BY <1>6, <1>7, <3>2
        <4>2. Len(priv) <= Len(priv')
          BY <1>5, SMT
        <4>3. \A n \in 1 .. Len(priv) : priv'[n].name = priv[n].name
          BY <1>5
        <4> QED BY <1>1, <1>5, <1>6, <2>1, <2>3, <4>1, <4>2, <4>3, OtherAt, SMT
      <3> QED BY <3>1, <3>2
    <2> QED BY <2>2, <2>3
  <1>9. \A n \in 1 .. new : n \in 1 .. Len(priv) \/ n = new
    BY <1>5, SMT
  <1>10. Apart'
    <2>1. net.name <= lastUser
      BY <1>3 DEF PrivInv, Apart
    <2>2. \A n \in 1 .. Len(priv') : priv'[n].name <= lastUser'
      BY <1>1, <1>5, <1>9, <2>1 DEF PrivInv, Apart
    <2> QED BY <1>1, <1>6, <2>2 DEF PrivInv, Apart
  <1>11. Kept'
    <2> SUFFICES ASSUME crashes = 0, NEW n \in 1 .. new, NEW h \in Groups,
                        priv'[n].live, priv'[n].name # 0
                 PROVE  /\ priv'[n].name = User(h) =>
                              \/ cur[h].data.private_vn # 0
                              \/ pc'[h] = "chown_private" /\ at'[h] = n
                        /\ priv'[n].name = data[h].userid /\ pc'[h] = "idle" =>
                              data[h].private_vn # 0
      BY <1>1, <1>5, <1>6 DEF Kept
    <2>1. CASE n \in 1 .. Len(priv)
      <3>1. /\ priv[n].name = User(h) =>
                  cur[h].data.private_vn # 0 \/ (pc[h] = "chown_private" /\ at[h] = n)
            /\ priv[n].name = data[h].userid /\ pc[h] = "idle" => data[h].private_vn # 0
        BY <1>5, <2>1 DEF PrivInv, Kept
      <3>2. CASE h = g
        BY <1>1, <1>2, <1>5, <1>6, <2>1, <3>1, <3>2
      <3>3. CASE h # g
        BY <1>5, <1>6, <2>1, <3>1, <3>3
      <3> QED BY <3>2, <3>3
    <2>2. CASE n = new
      <3>1. priv'[n].name = User(g)
        BY <1>3, <1>5, <2>2
      <3>2. h # g => User(g) \notin {data[h].userid, User(h)}
        BY <1>2 DEF PrivInv, Apart
      <3> QED BY <1>6, <2>2, <3>1, <3>2
    <2> QED BY <1>9, <2>1, <2>2
  <1>12. Unique'
    <2>1. ASSUME NEW m \in 1 .. Len(priv), priv[m].live, priv[m].name = User(g)
          PROVE  crashes # 0
      BY <1>1, <1>2, <2>1 DEF PrivInv, Kept
    <2> SUFFICES ASSUME NEW m \in 1 .. new, NEW n \in 1 .. new,
                        priv'[m].live, priv'[n].live,
                        priv'[m].name = priv'[n].name, priv'[m].name # 0,
                        \/ crashes = 0
                        \/ /\ priv'[m].owner = priv'[m].name
                           /\ priv'[n].owner = priv'[n].name
                 PROVE  m = n
      BY <1>1, <1>5 DEF Unique
    <2>2. CASE m \in 1 .. Len(priv) /\ n \in 1 .. Len(priv)
      BY <1>5, <2>2 DEF PrivInv, Unique
    <2>3. CASE m = new /\ n \in 1 .. Len(priv)
      BY <1>2, <1>3, <1>5, <2>1, <2>3
    <2>4. CASE n = new /\ m \in 1 .. Len(priv)
      BY <1>2, <1>3, <1>5, <2>1, <2>4
    <2> QED BY <1>9, <2>2, <2>3, <2>4
  <1> QED BY <1>6, <1>8, <1>10, <1>11, <1>12 DEF PrivInv

LEMMA ChownPriv ==
    ASSUME PrivInv, TypeOK, NEW g \in Groups, ChownPrivate(g)
    PROVE  PrivInv'
  <1>1. /\ UNCHANGED <<data, at, lastUser, crashes>>
        /\ pc[g] = "chown_private" /\ pc' = [pc EXCEPT ![g] = "publish"]
        /\ cur' = [cur EXCEPT ![g].data.private_vn = at[g]]
        /\ priv' = priv \/ priv' = [priv EXCEPT ![at[g]].owner = User(g)]
    BY DEF ChownPrivate, core, Go, Works, Fails, bounds
  <1> DEFINE mine == at[g]
  <1>2. /\ User(g) # 0 /\ PrivateOf(User(g)) = {}
        /\ mine \in 1 .. Len(priv) /\ priv[mine].name = User(g)
    BY <1>1 DEF PrivInv, At
  <1>3. priv \in Seq(Nets) /\ Len(priv) \in Nat /\ DOMAIN priv = 1 .. Len(priv)
    BY DEF TypeOK
  <1>4. /\ Len(priv') = Len(priv) /\ DOMAIN priv' = 1 .. Len(priv)
        /\ \A n \in 1 .. Len(priv) :
              /\ priv'[n].name = priv[n].name /\ priv'[n].live = priv[n].live
              /\ n # mine => priv'[n].owner = priv[n].owner
    <2>1. CASE priv' = priv
      BY <1>3, <2>1
    <2>2. CASE priv' = [priv EXCEPT ![mine].owner = User(g)]
      <3> HIDE DEF mine
      <3>1. /\ DOMAIN priv' = 1 .. Len(priv)
            /\ \A n \in 1 .. Len(priv) : n # mine => priv'[n] = priv[n]
            /\ priv'[mine] = [priv[mine] EXCEPT !.owner = User(g)]
        BY <1>2, <1>3, <2>2
      <3>2. priv[mine] \in Nets
        BY <1>2, <1>3
      <3>3. priv'[mine].name = priv[mine].name /\ priv'[mine].live = priv[mine].live
        BY <3>1, <3>2, SMT DEF Nets
      <3>4. Len(priv') = Len(priv)
        BY <1>3, <2>2
      <3> QED BY <3>1, <3>3, <3>4
    <2> QED BY <1>1, <2>1, <2>2
  <1>5. /\ pc' \in [Groups -> Steps] /\ crashes' \in Nat /\ pc'[g] = "publish"
        /\ \A h \in Groups \ {g} : pc'[h] = pc[h] /\ cur'[h] = cur[h]
        /\ \A h \in Groups : User(h)' = User(h)
        /\ cur'[g].data.private_vn = mine /\ mine # 0
    <2>1. cur[g] \in Requests /\ cur'[g] = [cur[g] EXCEPT !.data.private_vn = mine]
      BY <1>1 DEF TypeOK
    <2>2. cur'[g].data.userid = cur[g].data.userid /\ cur'[g].data.private_vn = mine
      BY <2>1, SMT DEF Requests, Datas
    <2>3. mine # 0
      BY <1>2, SMT
    <2>4. \A h \in Groups \ {g} : pc'[h] = pc[h] /\ cur'[h] = cur[h]
      BY <1>1 DEF PrivInv, TypeOK
    <2> QED BY <1>1, <2>2, <2>3, <2>4 DEF PrivInv, Steps, User
  <1> HIDE DEF mine
  <1>6. \A u : u # User(g) /\ PrivateOf(u) = {} => PrivateOf(u)' = {}
    <2> SUFFICES ASSUME NEW u, u # User(g), PrivateOf(u) = {}, NEW n \in PrivateOf(u)'
                 PROVE  FALSE
      OBVIOUS
    <2>1. n \in 1 .. Len(priv) /\ priv'[n].name = u /\ priv'[n].owner = u /\ priv'[n].live
      BY <1>4 DEF PrivateOf
    <2>2. n # mine
      BY <1>2, <1>4, <2>1
    <2>3. priv[n].name = u /\ priv[n].owner = u /\ priv[n].live
      BY <1>4, <2>1, <2>2
    <2> QED BY <1>3, <2>1, <2>3 DEF PrivateOf
  <1>7. ASSUME NEW h \in Groups PROVE At(h)'
    <2>1. At(h)
      BY DEF PrivInv
    <2>2. CASE h = g
      BY <1>2, <1>5, <2>2 DEF At
    <2>3. CASE h # g
      <3>1. User(h) # User(g)
        BY <1>2, <2>3 DEF PrivInv, Apart
      <3>2. PrivateOf(User(h)) = {} => PrivateOf(User(h))' = {}
        BY <1>5, <1>6, <3>1
      <3> QED BY <1>1, <1>3, <1>4, <1>5, <2>1, <2>3, <3>2, OtherAt, SMT
    <2> QED BY <2>2, <2>3
  <1>8. Apart'
    BY <1>1, <1>4, <1>5 DEF PrivInv, Apart
  <1>9. Kept'
    <2> SUFFICES ASSUME crashes = 0, NEW n \in 1 .. Len(priv), NEW h \in Groups,
                        priv[n].live, priv[n].name # 0
                 PROVE  /\ priv[n].name = User(h) =>
                              \/ cur'[h].data.private_vn # 0
                              \/ pc'[h] = "chown_private" /\ at'[h] = n
                        /\ priv[n].name = data[h].userid /\ pc'[h] = "idle" =>
                              data[h].private_vn # 0
      BY <1>1, <1>4, <1>5 DEF Kept
    <2>1. CASE h = g
      BY <1>5, <2>1
    <2>2. CASE h # g
      BY <1>1, <1>5, <2>2 DEF PrivInv, Kept
    <2> QED BY <2>1, <2>2
  <1>10. Unique'
    <2> SUFFICES ASSUME NEW m \in 1 .. Len(priv), NEW n \in 1 .. Len(priv),
                        priv[m].live, priv[n].live,
                        priv[m].name = priv[n].name, priv[m].name # 0,
                        \/ crashes = 0
                        \/ /\ priv'[m].owner = priv[m].name
                           /\ priv'[n].owner = priv[n].name
                 PROVE  m = n
      BY <1>1, <1>4 DEF Unique
    <2>1. CASE crashes = 0
      BY <2>1 DEF PrivInv, Unique
    <2>2. CASE priv[m].name = User(g) /\ crashes # 0
      <3>1. \A k \in {m, n} : k # mine => k \in PrivateOf(User(g))
        BY <1>3, <1>4, <2>2 DEF PrivateOf
      <3> QED BY <1>2, <3>1
    <2>3. CASE priv[m].name # User(g) /\ crashes # 0
      <3>1. m # mine /\ n # mine
        BY <1>2, <2>3
      <3>2. priv[m].owner = priv[m].name /\ priv[n].owner = priv[n].name
        BY <1>4, <2>3, <3>1
      <3> QED BY <3>2 DEF PrivInv, Unique
    <2> QED BY <2>1, <2>2, <2>3
  <1> QED BY <1>5, <1>7, <1>8, <1>9, <1>10 DEF PrivInv

LEMMA PublishPriv ==
    ASSUME PrivInv, TypeOK, NEW g \in Groups, Publish(g)
    PROVE  PrivInv'
  <1>1. /\ UNCHANGED <<priv, lastUser, crashes>>
        /\ pc[g] = "publish" /\ pc' = [pc EXCEPT ![g] = "idle"]
        /\ data' = [data EXCEPT ![g] = cur[g].data]
        /\ cur' = [cur EXCEPT ![g] = Idle]
        /\ at' = [at EXCEPT ![g] = 0]
    BY DEF Publish, Finish, one, bounds, Go
  <1>2. Idle.data.userid = 0
    BY SMT DEF Idle, NoData
  <1>3. /\ pc' \in [Groups -> Steps] /\ crashes' \in Nat /\ pc'[g] = "idle"
        /\ data'[g] = cur[g].data /\ cur'[g] = Idle /\ User(g)' = 0
        /\ \A h \in Groups \ {g} : /\ pc'[h] = pc[h] /\ cur'[h] = cur[h]
                                   /\ data'[h] = data[h] /\ at'[h] = at[h]
                                   /\ User(h)' = User(h)
    BY <1>1, <1>2 DEF PrivInv, TypeOK, Steps, User
  <1>4. lastUser \in Nat
    BY DEF TypeOK
  <1>5. ASSUME NEW h \in Groups PROVE At(h)'
    <2>1. CASE h = g
      BY <1>3, <2>1 DEF At
    <2>2. CASE h # g
      <3>1. At(h) /\ PrivateOf(User(h))' = PrivateOf(User(h))
        BY <1>1, <1>3, <2>2 DEF PrivInv, PrivateOf
      <3> QED BY <1>1, <1>3, <2>2, <3>1 DEF At
    <2> QED BY <2>1, <2>2
  <1>6. Apart'
    <2>1. \A h \in Groups : /\ data'[h].userid \in {data[h].userid, User(h)}
                            /\ User(h)' \in {0, User(h)}
      BY <1>3 DEF User
    <2>2. \A h \in Groups : data'[h].userid <= lastUser' /\ User(h)' <= lastUser'
      BY <1>1, <1>4, <2>1 DEF PrivInv, Apart
    <2>3. \A f, h \in Groups : \A u \in {data'[f].userid, User(f)'} :
             f # h /\ u # 0 => u \notin {data'[h].userid, User(h)'}
      BY <2>1 DEF PrivInv, Apart
    <2> QED BY <1>1, <2>2, <2>3 DEF PrivInv, Apart
  <1>7. Kept'
    BY <1>1, <1>3 DEF PrivInv, Kept, User
  <1>8. Unique'
    BY <1>1 DEF PrivInv, Unique
  <1> QED BY <1>3, <1>5, <1>6, <1>7, <1>8 DEF PrivInv

LEMMA CrashPriv ==
    ASSUME PrivInv, TypeOK, Crash
    PROVE  PrivInv'
  <1>1. /\ UNCHANGED <<priv, data, lastUser>> /\ crashes' = crashes + 1
        /\ pc' = [g \in Groups |-> "idle"] /\ cur' = [g \in Groups |-> Idle]
    BY DEF Crash, one, core
  <1>2. \A g \in Groups : User(g)' = 0
    BY <1>1, SMT DEF User, Idle, NoData
  <1>3. crashes' \in Nat /\ crashes' # 0
    BY <1>1, SMT DEF PrivInv
  <1>4. \A g \in Groups : At(g)'
    BY <1>1, <1>2 DEF At
  <1>5. Apart'
    <2>1. 0 <= lastUser
      BY SMT DEF TypeOK
    <2> QED BY <1>1, <1>2, <2>1 DEF PrivInv, Apart
  <1>6. Kept' /\ Unique'
    BY <1>1, <1>3 DEF PrivInv, Kept, Unique
  <1> QED BY <1>1, <1>3, <1>4, <1>5, <1>6 DEF PrivInv, Steps

\* Down forgets a user, and leaves fewer networks alive.
LEMMA DownPriv ==
    ASSUME PrivInv, TypeOK, NEW g \in Groups, Down(g)
    PROVE  PrivInv'
  <1>1. /\ UNCHANGED <<pc, cur, at, lastUser, crashes>> /\ pc[g] = "idle"
        /\ data' = [data EXCEPT ![g] = NoData]
    BY DEF Down
  <1>2. PICK Q : priv' = [n \in DOMAIN priv |->
                            IF n \in Q THEN [priv[n] EXCEPT !.live = FALSE] ELSE priv[n]]
    <2> DEFINE u == data[g].userid
    <2>1. PICK q \in BOOLEAN :
            priv' = [n \in DOMAIN priv |->
                       IF q /\ PrivateOf(u) = {n} THEN [priv[n] EXCEPT !.live = FALSE]
                       ELSE priv[n]]
      BY DEF Down
    <2>2. \A n : (q /\ PrivateOf(u) = {n}) <=> n \in IF q THEN {k \in PrivateOf(u) : PrivateOf(u) = {k}} ELSE {}
      OBVIOUS
    <2>3. priv' = [n \in DOMAIN priv |->
                     IF n \in (IF q THEN {k \in PrivateOf(u) : PrivateOf(u) = {k}} ELSE {})
                     THEN [priv[n] EXCEPT !.live = FALSE] ELSE priv[n]]
      BY <2>1, <2>2
    <2> QED BY <2>3
  <1>3. /\ Len(priv) \in Nat /\ Len(priv') = Len(priv) /\ DOMAIN priv = 1 .. Len(priv)
        /\ DOMAIN priv' = 1 .. Len(priv)
        /\ \A n \in 1 .. Len(priv) :
              /\ priv'[n].name = priv[n].name /\ priv'[n].owner = priv[n].owner
              /\ priv'[n].live => priv[n].live
    <2> DEFINE f == [n \in 1 .. Len(priv) |-> [priv[n] EXCEPT !.live = FALSE]]
    <2>1. priv \in Seq(Nets) /\ DOMAIN priv = 1 .. Len(priv) /\ Len(priv) \in Nat
      BY DEF TypeOK
    <2>2. ASSUME NEW r \in Nets
          PROVE  LET e == [r EXCEPT !.live = FALSE] IN
                 /\ e \in Nets /\ e.name = r.name /\ e.owner = r.owner
                 /\ e.live => r.live
      <3>1. /\ [r EXCEPT !.live = FALSE] \in Nets
            /\ ~[r EXCEPT !.live = FALSE].live
        BY <2>2, Deleted
      <3>2. /\ [r EXCEPT !.live = FALSE].name = r.name
            /\ [r EXCEPT !.live = FALSE].owner = r.owner
        BY SMT DEF Nets
      <3> QED BY <3>1, <3>2
    <2>3. ASSUME NEW n \in 1 .. Len(priv)
          PROVE  /\ f[n] \in Nets /\ f[n].name = priv[n].name
                 /\ f[n].owner = priv[n].owner
                 /\ f[n].live => priv[n].live
      <3>1. priv[n] \in Nets /\ f[n] = [priv[n] EXCEPT !.live = FALSE]
        BY <2>1
      <3> QED BY <2>2, <3>1
    <2>4. priv' = [n \in DOMAIN priv |-> IF n \in Q THEN f[n] ELSE priv[n]]
      BY <1>2, <2>1
    <2> HIDE DEF f
    <2>5. /\ priv' \in Seq(Nets) /\ Len(priv') = Len(priv)
          /\ \A n \in 1 .. Len(priv) : priv'[n] = priv[n] \/ priv'[n] = f[n]
      BY <2>1, <2>3, <2>4, Rewritten
    <2>6. DOMAIN priv' = 1 .. Len(priv)
      BY <2>1, <2>4
    <2>7. ASSUME NEW n \in 1 .. Len(priv)
          PROVE  /\ priv'[n].name = priv[n].name /\ priv'[n].owner = priv[n].owner
                 /\ priv'[n].live => priv[n].live
      BY <2>3, <2>5
    <2> QED BY <2>1, <2>5, <2>6, <2>7
  <1>4. NoData.userid = 0
    BY SMT DEF NoData
  <1>5. /\ \A h \in Groups : User(h)' = User(h)
        /\ data'[g].userid = 0 /\ \A h \in Groups \ {g} : data'[h] = data[h]
    BY <1>1, <1>4 DEF User, TypeOK
  <1>6. ASSUME NEW h \in Groups PROVE At(h)'
    <2>1. At(h)
      BY DEF PrivInv
    <2>2. PrivateOf(User(h)) = {} => PrivateOf(User(h))' = {}
      BY <1>3, <1>5 DEF PrivateOf
    <2>3. CASE h = g
      BY <1>1, <1>5, <2>1, <2>3 DEF At
    <2>4. CASE h # g
      BY <1>1, <1>3, <1>5, <2>1, <2>2, <2>4, OtherAt, SMT
    <2> QED BY <2>3, <2>4
  <1>7. Apart'
    <2>1. 0 <= lastUser
      BY SMT DEF TypeOK
    <2>2. \A h \in Groups : data'[h].userid \in {0, data[h].userid}
      BY <1>5
    <2>3. \A h \in Groups : data'[h].userid <= lastUser /\ User(h)' <= lastUser
      BY <1>5, <2>1, <2>2 DEF PrivInv, Apart
    <2>4. \A n \in 1 .. Len(priv') : priv'[n].name <= lastUser
      BY <1>3 DEF PrivInv, Apart
    <2>5. \A f, h \in Groups : \A u \in {data'[f].userid, User(f)'} :
             f # h /\ u # 0 => u \notin {data'[h].userid, User(h)'}
      BY <1>5, <2>2 DEF PrivInv, Apart
    <2> QED BY <1>1, <2>3, <2>4, <2>5 DEF Apart
  <1>8. Kept'
    BY <1>1, <1>3, <1>5 DEF PrivInv, Kept
  <1>9. Unique'
    BY <1>1, <1>3 DEF PrivInv, Unique
  <1> QED BY <1>1, <1>6, <1>7, <1>8, <1>9 DEF PrivInv

LEMMA PrepareServicePriv ==
    ASSUME PrivInv, TypeOK, NEW g \in Groups, PrepareService(g)
    PROVE  PrivInv'
  <1>1. ASSUME UNCHANGED <<priv, data, lastUser, crashes, cur>>,
               NEW s \in {"public", "size", "pool", "reserve", "private", "publish"},
               pc' = [pc EXCEPT ![g] = s],
               pc[g] \notin {"idle", "user", "chown_private"},
               at' = at \/ \E n : at' = [at EXCEPT ![g] = n]
        PROVE  PrivInv'
    <2>1. s \in Steps \ {"idle", "user", "vlan", "chown_private"}
      BY DEF Steps
    <2>2. \A h \in Groups : /\ User(h)' = User(h)
                            /\ cur'[h].data.private_vn = cur[h].data.private_vn
                            /\ h # g => at'[h] = at[h]
      BY <1>1 DEF User, TypeOK
    <2> QED BY <1>1, <2>1, <2>2, QuietPriv
  <1>2. ASSUME Return(g), pc[g] \notin {"idle", "user", "chown_private"},
               UNCHANGED crashes
        PROVE  PrivInv'
    BY <1>1, <1>2 DEF Return, one, core, Go
  <1>3. CASE FindPublic(g)
    BY <1>1, <1>2, <1>3 DEF FindPublic, one, core, Go, Works, Fails, bounds
  <1>4. CASE ReadSize(g)
    <2>1. /\ UNCHANGED <<priv, data, lastUser, crashes, cur, at>> /\ pc[g] = "size"
          /\ Go(g, "pool") \/ Go(g, "private")
      BY <1>4 DEF ReadSize, one, core, Works, Fails, bounds
    <2> QED BY <1>1, <2>1 DEF Go
  <1>5. CASE FindPool(g)
    <2>1. UNCHANGED crashes /\ pc[g] = "pool"
      BY <1>5 DEF FindPool, Works, Fails, bounds
    <2>2. CASE Return(g)
      BY <1>2, <2>1, <2>2
    <2>3. CASE ~Return(g)
      <3>1. /\ UNCHANGED <<one, core, cur>> /\ Go(g, "reserve")
            /\ \E n : at' = [at EXCEPT ![g] = n]
        BY <1>5, <2>3 DEF FindPool
      <3> QED BY <1>1, <2>1, <3>1 DEF one, core, Go
    <2> QED BY <2>2, <2>3
  <1>6. CASE Reserve(g)
    <2>1. UNCHANGED crashes /\ pc[g] = "reserve"
      BY <1>6 DEF Reserve, Works, Fails, bounds
    <2>2. CASE Return(g)
      BY <1>2, <2>1, <2>2
    <2>3. CASE ~Return(g)
      <3>1. /\ UNCHANGED <<priv, core, cur, lastUser, pc>>
            /\ at' = at \/ \E n : at' = [at EXCEPT ![g] = n]
        BY <1>6, <2>3 DEF Reserve
      <3>2. pc' = [pc EXCEPT ![g] = "reserve"]
        BY <2>1, <3>1 DEF PrivInv
      <3> QED BY <1>1, <2>1, <3>1, <3>2 DEF core
    <2> QED BY <2>2, <2>3
  <1>7. CASE ChownPublic(g)
    <2>1. /\ UNCHANGED <<priv, data, lastUser, crashes, at>> /\ pc[g] = "reserve"
          /\ pc' = [pc EXCEPT ![g] = "private"]
          /\ cur' = [cur EXCEPT ![g].data.public_vn = at[g]]
      BY <1>7 DEF ChownPublic, core, Go, Works, Fails, bounds
    <2>2. "private" \in Steps \ {"idle", "user", "vlan", "chown_private"}
      BY DEF Steps
    <2>3. ASSUME NEW h \in Groups
          PROVE  /\ User(h)' = User(h)
                 /\ cur'[h].data.private_vn = cur[h].data.private_vn
      <3>1. CASE h = g
        <4>1. /\ cur[g] \in Requests
              /\ cur'[g] = [cur[g] EXCEPT !.data.public_vn = at[g]]
          BY <2>1 DEF TypeOK
        <4> QED BY <3>1, <4>1, SMT DEF Requests, Datas, User
      <3>2. CASE h # g
        BY <2>1, <3>2 DEF User, TypeOK
      <3> QED BY <3>1, <3>2
    <2> QED BY <2>1, <2>2, <2>3, QuietPriv
  <1>8. CASE FindPrivate(g)
    <2>1. /\ UNCHANGED <<priv, data, lastUser, crashes, cur, at>> /\ pc[g] = "private"
          /\ Go(g, "publish") \/ (NoPrivate(g) /\ Go(g, "vlan"))
      BY <1>8 DEF FindPrivate, one, core, Works, Fails, bounds
    <2>2. CASE Go(g, "publish")
      BY <1>1, <2>1, <2>2 DEF Go
    <2>3. CASE NoPrivate(g) /\ Go(g, "vlan")
      <3>1. /\ pc' \in [Groups -> Steps] /\ pc'[g] = "vlan"
            /\ \A h \in Groups \ {g} : pc'[h] = pc[h]
        BY <2>3 DEF Go, PrivInv, Steps
      <3>2. ASSUME NEW h \in Groups PROVE At(h)'
        <4>1. At(h) /\ User(h)' = User(h) /\ PrivateOf(User(h))' = PrivateOf(User(h))
          BY <2>1 DEF PrivInv, User, PrivateOf
        <4>2. CASE h = g
          BY <2>1, <2>3, <3>1, <4>1, <4>2 DEF At, NoPrivate
        <4>3. CASE h # g
          BY <2>1, <3>1, <4>1, <4>3 DEF At
        <4> QED BY <4>2, <4>3
      <3>3. \A h \in Groups : User(h)' = User(h)
        BY <2>1 DEF User
      <3>4. Apart' /\ Kept' /\ Unique'
        BY <2>1, <3>1, <3>3 DEF PrivInv, Apart, Kept, Unique
      <3> QED BY <2>1, <3>1, <3>2, <3>4 DEF PrivInv
    <2> QED BY <2>1, <2>2, <2>3
  <1>9. CASE ReservePrivateIP(g)
    <2>1. UNCHANGED crashes /\ pc[g] = "vlan"
      BY <1>9 DEF ReservePrivateIP, Works, Fails, bounds
    <2> QED BY <1>2, <1>9, <2>1, ReservePriv
  <1> QED
    BY <1>3, <1>4, <1>5, <1>6, <1>7, <1>8, <1>9, CreateUserPriv, ChownPriv, PublishPriv
    DEF PrepareService

LEMMA PrivInit == Init => PrivInv
  <1> SUFFICES ASSUME Init PROVE PrivInv
    OBVIOUS
  <1>1. /\ priv = << >> /\ lastUser = 0 /\ crashes = 0
        /\ pc = [g \in Groups |-> "idle"]
        /\ data = [g \in Groups |-> NoData]
        /\ cur = [g \in Groups |-> Idle]
    BY DEF Init
  <1>2. NoData.userid = 0 /\ Idle.data.userid = 0
    BY SMT DEF NoData, Idle
  <1>3. \A g \in Groups : User(g) = 0 /\ data[g].userid = 0 /\ pc[g] = "idle"
    BY <1>1, <1>2 DEF User
  <1>4. \A g \in Groups : At(g)
    BY <1>3 DEF At
  <1>5. 1 .. Len(priv) = {}
    BY <1>1, SMT
  <1>6. Apart /\ Kept /\ Unique
    BY <1>1, <1>3, <1>5 DEF Apart, Kept, Unique
  <1> QED BY <1>1, <1>4, <1>6 DEF PrivInv, Steps

LEMMA PrivStep == VlanInv /\ PrivInv /\ [Next]_vars => PrivInv'
  <1> SUFFICES ASSUME VlanInv, PrivInv, [Next]_vars PROVE PrivInv'
    OBVIOUS
  <1>0. TypeOK
    BY DEF VlanInv
  <1>1. ASSUME UNCHANGED <<priv, data, lastUser, crashes, pc, cur, at>> PROVE PrivInv'
    BY <1>1 DEF PrivInv, At, Apart, Kept, Unique, User, PrivateOf
  <1>2. ASSUME NEW g \in Groups, SetNeed(g) PROVE PrivInv'
    BY <1>1, <1>2 DEF SetNeed, one, bounds
  <1>3. CASE MonitorNetworks \/ UNCHANGED vars
    BY <1>1, <1>3 DEF MonitorNetworks, vars, one, core, bounds
  <1> QED
    BY <1>0, <1>2, <1>3, BeginPriv, PrepareServicePriv, DownPriv, CrashPriv DEF Next

\* A set of which any two elements are equal has at most one.
LEMMA AtMostOne ==
    ASSUME NEW S, \A x, y \in S : x = y
    PROVE  Cardinality(S) <= 1
  <1>1. CASE S = {}
    BY <1>1, FS_EmptySet, SMT
  <1>2. ASSUME NEW x \in S PROVE Cardinality(S) <= 1
    <2>1. S = {x}
      BY <1>2
    <2> QED BY <2>1, FS_Singleton, SMT
  <1> QED BY <1>1, <1>2

\* Whatever calls fail and wherever the process dies, GetUserPrivateVNet never
\* finds two private networks of a user; and ReservePrivateIP makes no second
\* one in its name unless the process died before the first was published.
THEOREM OnePrivate == Spec => []OnePrivateNet
  <1>1. VlanInv /\ PrivInv => OnePrivateNet
    <2> SUFFICES ASSUME VlanInv, PrivInv, NEW u \in 1 .. MaxUsers
                 PROVE  /\ Cardinality(PrivateOf(u)) <= 1
                        /\ crashes = 0 =>
                             Cardinality({n \in DOMAIN priv :
                                            priv[n].live /\ priv[n].name = u}) <= 1
      BY DEF OnePrivateNet
    <2>1. DOMAIN priv = 1 .. Len(priv)
      BY DEF VlanInv, TypeOK
    <2>2. u # 0
      BY SMT
    <2>3. \A m, n \in PrivateOf(u) : m = n
      BY <2>1, <2>2 DEF PrivInv, Unique, PrivateOf
    <2>4. crashes = 0 =>
            \A m, n \in {k \in DOMAIN priv : priv[k].live /\ priv[k].name = u} : m = n
      BY <2>1, <2>2 DEF PrivInv, Unique
    <2> QED BY <2>3, <2>4, AtMostOne
  <1> QED BY <1>1, VlanInit, VlanStep, PrivInit, PrivStep, PTL DEF Spec

-----------------------------------------------------------------------------
(* The public addresses.                                                   *)

\* A group's user is the one OpenNebula has under its name, if it is any; no
\* two groups share it, and no network is named after a user to come.
Users ==
    /\ login \in [Groups -> Nat] /\ misread \subseteq 0 .. lastUser
    /\ \A g \in Groups : /\ login[g] <= lastUser
                         /\ data[g].userid \in {0, login[g]}
                         /\ User(g) \in {0, login[g]}
    /\ \A g, h \in Groups : g # h /\ login[g] # 0 => login[g] # login[h]
    /\ \A n \in 1 .. Len(pub) : pub[n].name <= lastUser

\* What a request lacks before it has looked at the networks, and the network
\* it reserves to.
Room(g) ==
    /\ pc[g] \in {"user", "public", "size"} => short[g] \in 0 .. peak[g]
    /\ pc[g] = "reserve" /\ at[g] # 0 =>
          at[g] \in 1 .. Len(pub) /\ pub[at[g]].name = User(g)

\* PublicWithinNeed of one group, and that the addresses there are and those
\* still to be reserved are no more than the group ever needed: while the
\* request reserves, the user owns no network but the one it works on.
Held(g) ==
    login[g] # 0 /\ login[g] \notin misread =>
        /\ \A m, n \in PublicOf(login[g]) : m = n
        /\ \A n \in PublicOf(login[g]) : pub[n].size <= peak[g]
        /\ pc[g] = "pool" =>
              /\ short[g] \in 0 .. peak[g]
              /\ \A n \in PublicOf(login[g]) : pub[n].size + short[g] <= peak[g]
        /\ pc[g] = "reserve" =>
              /\ short[g] \in 0 .. peak[g]
              /\ PublicOf(login[g]) \subseteq {at[g]}
              /\ at[g] # 0 => pub[at[g]].size + short[g] <= peak[g]

AddressInv ==
    /\ need \in [Groups -> Nat] /\ peak \in [Groups -> Nat]
    /\ DOMAIN short = Groups
    /\ Users
    /\ \A g \in Groups : Room(g) /\ Held(g)

-----------------------------------------------------------------------------

LEMMA PubFacts ==
    ASSUME TypeOK
    PROVE  /\ DOMAIN pub = 1 .. Len(pub) /\ Len(pub) \in Nat
           /\ \A n \in 1 .. Len(pub) :
                 pub[n].name \in Nat /\ pub[n].owner \in Nat /\ pub[n].size \in Nat
  <1>1. pub \in Seq(Publics)
    BY DEF TypeOK
  <1>2. \A n \in 1 .. Len(pub) : pub[n] \in Publics
    BY <1>1
  <1>3. \A r \in Publics : r.name \in Nat /\ r.owner \in Nat /\ r.size \in Nat
    BY SMT DEF Publics
  <1> QED BY <1>1, <1>2, <1>3

\* The addresses of a user with at most one network are those of the network.
LEMMA SizeOfOne ==
    ASSUME NEW S, \A m, n \in S : m = n, \A n \in S : pub[n].size \in Nat
    PROVE  LET size == MapThenSumSet(LAMBDA n : pub[n].size, S) IN
           /\ S = {} => size = 0
           /\ \A n \in S : size = pub[n].size
  <1> DEFINE h0 == [s \in SUBSET S |-> IF s = {} THEN 0 ELSE pub[CHOOSE x \in s : TRUE].size]
             eq(h) == h = [s \in SUBSET S |->
                 IF s = {} THEN 0
                 ELSE pub[CHOOSE x \in s : TRUE].size + h[s \ {CHOOSE x \in s : TRUE}]]
  <1>1. MapThenSumSet(LAMBDA n : pub[n].size, S) = (CHOOSE h : eq(h))[S]
    BY DEF MapThenSumSet, MapThenFoldSet
  <1>2. ASSUME NEW s \in SUBSET S, s # {}
        PROVE  LET x == CHOOSE y \in s : TRUE IN
               x \in S /\ s \ {x} = {} /\ pub[x].size \in Nat
    <2>1. PICK x : x = CHOOSE y \in s : TRUE
      OBVIOUS
    <2>2. x \in s
      BY <1>2, <2>1
    <2> QED BY <2>1, <2>2
  <1>3. eq(h0)
    <2>1. ASSUME NEW s \in SUBSET S
          PROVE  h0[s] = IF s = {} THEN 0
                         ELSE pub[CHOOSE x \in s : TRUE].size
                                + h0[s \ {CHOOSE x \in s : TRUE}]
      <3>1. CASE s = {}
        BY <3>1
      <3>2. CASE s # {}
        <4> DEFINE x == CHOOSE y \in s : TRUE
        <4>1. s \ {x} = {} /\ pub[x].size \in Nat
          BY <1>2, <3>2
        <4>2. h0[s] = pub[x].size /\ h0[{}] = 0
          BY <3>2
        <4> HIDE DEF x, h0
        <4>3. pub[x].size = pub[x].size + h0[s \ {x}]
          BY <4>1, <4>2, SMT
        <4>4. h0[s] = pub[x].size + h0[s \ {x}]
          BY <4>2, <4>3
        <4> QED BY <3>2, <4>4 DEF x
      <3> QED BY <3>1, <3>2
    <2> DEFINE F == [s \in SUBSET S |->
                 IF s = {} THEN 0
                 ELSE pub[CHOOSE x \in s : TRUE].size + h0[s \ {CHOOSE x \in s : TRUE}]]
    <2>2. \A s \in SUBSET S : h0[s] = F[s]
      BY <2>1, Zenon
    <2>3. h0 = F
      <3> HIDE DEF h0
      <3>1. DOMAIN h0 = SUBSET S /\ h0 = [s \in SUBSET S |-> h0[s]]
        BY DEF h0
      <3> QED BY <2>2, <3>1
    <2> QED BY <2>3
  <1> DEFINE h1 == CHOOSE h : eq(h)
  <1>4. eq(h1)
    <2> HIDE DEF eq, h0
    <2> QED BY <1>3
  <1>5. h1[{}] = 0
    <2>1. {} \in SUBSET S
      OBVIOUS
    <2> HIDE DEF h1
    <2> QED BY <1>4, <2>1
  <1>6. ASSUME NEW n \in S PROVE h1[S] = pub[n].size
    <2> DEFINE x == CHOOSE y \in S : TRUE
    <2>1. x \in S /\ S \ {x} = {} /\ pub[x].size \in Nat /\ S # {}
      BY <1>2, <1>6
    <2>2. x = n
      BY <1>6, <2>1
    <2> HIDE DEF h1
    <2>3. h1[S] = pub[x].size + h1[S \ {x}]
      BY <1>4, <2>1
    <2> HIDE DEF x
    <2>4. h1[S] = pub[n].size + 0 /\ pub[n].size \in Nat
      BY <1>5, <2>1, <2>2, <2>3
    <2> QED BY <2>4, SMT
  <1> HIDE DEF h1
  <1>7. MapThenSumSet(LAMBDA n : pub[n].size, S) = h1[S]
    BY <1>1 DEF h1
  <1> QED BY <1>5, <1>6, <1>7

\* Steps of other groups leave what is known of h.
LEMMA OtherHeld ==
    ASSUME TypeOK, TypeOK', NEW h \in Groups, Room(h), Held(h),
           pc'[h] = pc[h], short'[h] = short[h], at'[h] = at[h],
           peak'[h] = peak[h], login'[h] = login[h], User(h)' = User(h),
           misread \subseteq misread',
           pc[h] = "reserve" => User(h) = login[h],
           Len(pub) <= Len(pub'),
           \A n \in 1 .. Len(pub) : pub'[n].name = pub[n].name,
           login[h] # 0 => \A n \in 1 .. Len(pub') :
              pub'[n].name = login[h] => n \in 1 .. Len(pub) /\ pub'[n] = pub[n]
    PROVE  Room(h)' /\ Held(h)'
  <1>1. /\ DOMAIN pub = 1 .. Len(pub) /\ DOMAIN pub' = 1 .. Len(pub')
        /\ Len(pub) \in Nat /\ Len(pub') \in Nat
    BY DEF TypeOK
  <1>2. \A n \in 1 .. Len(pub) : n \in 1 .. Len(pub')
    BY <1>1, SMT
  <1>3. Room(h)'
    BY <1>2 DEF Room
  <1>4. Held(h)'
    <2> SUFFICES ASSUME login[h] # 0, login[h] \notin misread
                 PROVE  Held(h)'
      BY DEF Held
    <2> DEFINE u == login[h]
    <2>1. \A n \in PublicOf(u)' : n \in PublicOf(u) /\ pub'[n].size = pub[n].size
      BY <1>1 DEF PublicOf
    <2>2. pc[h] = "reserve" /\ at[h] # 0 => pub'[at[h]].size = pub[at[h]].size
      BY <1>2 DEF Room
    <2>3. /\ \A m, n \in PublicOf(u) : m = n
          /\ \A n \in PublicOf(u) : pub[n].size <= peak[h]
      BY DEF Held
    <2>4. pc[h] = "pool" =>
              /\ short[h] \in 0 .. peak[h]
              /\ \A n \in PublicOf(u) : pub[n].size + short[h] <= peak[h]
      BY DEF Held
    <2>5. pc[h] = "reserve" =>
              /\ short[h] \in 0 .. peak[h]
              /\ PublicOf(u) \subseteq {at[h]}
              /\ at[h] # 0 => pub[at[h]].size + short[h] <= peak[h]
      BY DEF Held
    <2>6. PublicOf(login[h])' = PublicOf(u)'
      BY DEF PublicOf
    <2> HIDE DEF u
    <2>7. /\ \A m, n \in PublicOf(login[h])' : m = n
          /\ \A n \in PublicOf(login[h])' : pub'[n].size <= peak'[h]
      BY <2>1, <2>3, <2>6
    <2>8. pc'[h] = "pool" =>
              /\ short'[h] \in 0 .. peak'[h]
              /\ \A n \in PublicOf(login[h])' : pub'[n].size + short'[h] <= peak'[h]
      BY <2>1, <2>4, <2>6
    <2>9. pc'[h] = "reserve" =>
              /\ short'[h] \in 0 .. peak'[h]
              /\ PublicOf(login[h])' \subseteq {at'[h]}
              /\ at'[h] # 0 => pub'[at'[h]].size + short'[h] <= peak'[h]
      BY <2>1, <2>2, <2>5, <2>6
    <2> QED BY <2>7, <2>8, <2>9 DEF Held
  <1> QED BY <1>3, <1>4

\* A step of g, which touches no networks but those named after its user.
LEMMA OwnStep ==
    ASSUME TypeOK, TypeOK', PrivInv, AddressInv, NEW g \in Groups,
           need' \in [Groups -> Nat], peak' \in [Groups -> Nat],
           DOMAIN short' = Groups, Users', Room(g)', Held(g)',
           misread \subseteq misread',
           \A h \in Groups \ {g} :
              /\ pc'[h] = pc[h] /\ short'[h] = short[h] /\ at'[h] = at[h]
              /\ peak'[h] = peak[h] /\ login'[h] = login[h] /\ User(h)' = User(h),
           Len(pub) <= Len(pub'),
           \A n \in 1 .. Len(pub) :
              /\ pub'[n].name = pub[n].name
              /\ pub'[n] = pub[n] \/ (pub[n].name = login[g] /\ login[g] # 0),
           \A n \in 1 .. Len(pub') :
              n \in 1 .. Len(pub) \/ (pub'[n].name = login[g] /\ login[g] # 0)
    PROVE  AddressInv'
  <1>1. ASSUME NEW h \in Groups \ {g} PROVE Room(h)' /\ Held(h)'
    <2>1. Room(h) /\ Held(h)
      BY DEF AddressInv
    <2>2. pc[h] = "reserve" => User(h) = login[h]
      BY DEF AddressInv, Users, PrivInv, At
    <2>3. login[g] # 0 => login[g] # login[h]
      BY DEF AddressInv, Users
    <2>4. \A n \in 1 .. Len(pub') :
              pub'[n].name = login[h] => n \in 1 .. Len(pub) /\ pub'[n] = pub[n]
      BY <2>3
    <2> QED BY <2>1, <2>2, <2>4, OtherHeld
  <1> QED BY <1>1 DEF AddressInv

\* Users stay what they are when none comes or goes.
LEMMA SameUsers ==
    ASSUME Users, UNCHANGED <<login, lastUser>>, misread' \subseteq 0 .. lastUser,
           \A h \in Groups : /\ data'[h].userid \in {0, data[h].userid, User(h)}
                             /\ User(h)' \in {0, data[h].userid, User(h)},
           \A n \in 1 .. Len(pub') : pub'[n].name <= lastUser
    PROVE  Users'
  BY DEF Users

\* Steps that leave the addresses, and what a request needs of them, alone.
LEMMA QuietPub ==
    ASSUME TypeOK, TypeOK', PrivInv, AddressInv, NEW g \in Groups,
           UNCHANGED <<pub, login, lastUser, need, peak, data, short, misread>>,
           NEW s \in Steps \ {"user", "public", "pool", "reserve"},
           s = "size" => pc[g] = "public",
           pc' = [pc EXCEPT ![g] = s],
           \A h \in Groups : /\ User(h)' = User(h)
                             /\ h # g => at'[h] = at[h]
    PROVE  AddressInv'
  <1>1. pc'[g] = s /\ \A h \in Groups \ {g} : pc'[h] = pc[h]
    BY DEF PrivInv
  <1>2. Users'
    BY SameUsers DEF AddressInv, Users
  <1>3. Room(g)'
    BY <1>1 DEF Room, AddressInv
  <1>4. Held(g)'
    BY <1>1 DEF Held, AddressInv, PublicOf
  <1>5. Len(pub) <= Len(pub')
    BY PubFacts, SMT
  <1> HIDE DEF PrivInv
  <1> QED BY <1>1, <1>2, <1>3, <1>4, <1>5, OwnStep DEF AddressInv

\* PrepareService begins with what the group needs now.
LEMMA BeginPub ==
    ASSUME TypeOK, TypeOK', PrivInv, AddressInv, NEW g \in Groups, Begin(g)
    PROVE  AddressInv'
  <1>1. /\ UNCHANGED <<pub, login, lastUser, need, data, misread, at>>
        /\ pc[g] = "idle"
        /\ pc' = [pc EXCEPT ![g] = IF data[g].userid = 0 THEN "user" ELSE "public"]
        /\ cur' = [cur EXCEPT ![g] = [data |-> data[g], sp |-> spState]]
        /\ short' = [short EXCEPT ![g] = need[g]]
        /\ peak' = [peak EXCEPT ![g] = Max({peak[g], need[g]})]
    BY DEF Begin, one, bounds, Go
  <1>2. need[g] \in Nat /\ peak[g] \in Nat /\ DOMAIN short = Groups
    BY DEF AddressInv
  <1>3. PICK top \in Nat : /\ top = Max({peak[g], need[g]})
                           /\ peak[g] <= top /\ need[g] <= top
    <2>1. \E x \in {peak[g], need[g]} : \A y \in {peak[g], need[g]} : x >= y
      BY <1>2
    <2>2. /\ Max({peak[g], need[g]}) \in {peak[g], need[g]}
          /\ \A y \in {peak[g], need[g]} : Max({peak[g], need[g]}) >= y
      BY <2>1 DEF Max
    <2> QED BY <1>2, <2>2
  <1>4. /\ peak' \in [Groups -> Nat] /\ DOMAIN short' = Groups
        /\ peak'[g] = top /\ short'[g] = need[g] /\ pc'[g] \in {"user", "public"}
    BY <1>1, <1>2, <1>3 DEF AddressInv, PrivInv
  <1>5. cur'[g].data = data[g]
    BY <1>1 DEF TypeOK
  <1>6. \A h \in Groups \ {g} :
           /\ pc'[h] = pc[h] /\ short'[h] = short[h] /\ at'[h] = at[h]
           /\ peak'[h] = peak[h] /\ login'[h] = login[h] /\ User(h)' = User(h)
    BY <1>1 DEF AddressInv, PrivInv, TypeOK, User
  <1>7. Users'
    <2>1. \A h \in Groups : User(h)' \in {User(h), data[h].userid}
      BY <1>5, <1>6 DEF User
    <2> QED BY <1>1, <2>1, SameUsers DEF AddressInv, Users
  <1>8. Room(g)'
    BY <1>2, <1>3, <1>4, SMT DEF Room
  <1>9. Held(g)'
    <2>1. \A n \in PublicOf(login[g]) : pub[n].size \in Nat
      BY PubFacts DEF PublicOf
    <2>2. Held(g)
      BY DEF AddressInv
    <2>3. login'[g] = login[g] /\ misread' = misread
          /\ PublicOf(login[g])' = PublicOf(login[g])
      BY <1>1 DEF PublicOf
    <2>4. pc'[g] # "pool" /\ pc'[g] # "reserve"
      BY <1>4
    <2>5. SUFFICES ASSUME login[g] # 0, login[g] \notin misread
                   PROVE  /\ \A m, n \in PublicOf(login[g]) : m = n
                          /\ \A n \in PublicOf(login[g]) : pub[n].size <= top
      BY <1>1, <1>4, <2>3, <2>4 DEF Held
    <2>6. /\ \A m, n \in PublicOf(login[g]) : m = n
          /\ \A n \in PublicOf(login[g]) : pub[n].size <= peak[g]
      BY <2>2, <2>5 DEF Held
    <2> QED BY <1>2, <1>3, <2>1, <2>6, SMT
  <1>10. Len(pub) <= Len(pub')
    BY <1>1, PubFacts, SMT
  <1> QED BY <1>1, <1>4, <1>6, <1>7, <1>8, <1>9, <1>10, OwnStep DEF AddressInv

\* A new user owns nothing.
LEMMA CreateUserPub ==
    ASSUME TypeOK, TypeOK', PrivInv, AddressInv, NEW g \in Groups, CreateUser(g)
    PROVE  AddressInv'
  <1>1. /\ UNCHANGED <<pub, need, peak, data, short, misread, at>> /\ pc[g] = "user"
        /\ \/ pc' = [pc EXCEPT ![g] = "idle"] /\ UNCHANGED <<login, lastUser, cur>>
           \/ /\ login[g] = 0 /\ pc' = [pc EXCEPT ![g] = "public"]
              /\ lastUser' = lastUser + 1
              /\ login' = [login EXCEPT ![g] = lastUser + 1]
              /\ cur' = [cur EXCEPT ![g].data.userid = lastUser + 1]
    BY DEF CreateUser, core, Go
  <1>2. CASE pc' = [pc EXCEPT ![g] = "idle"] /\ UNCHANGED <<login, lastUser, cur>>
    <2>1. "idle" \in Steps \ {"user", "public", "pool", "reserve"}
      BY DEF Steps
    <2>2. \A h \in Groups : User(h)' = User(h)
      BY <1>2 DEF User
    <2> QED BY <1>1, <1>2, <2>1, <2>2, QuietPub
  <1>3. CASE /\ login[g] = 0 /\ pc' = [pc EXCEPT ![g] = "public"]
             /\ lastUser' = lastUser + 1
             /\ login' = [login EXCEPT ![g] = lastUser + 1]
             /\ cur' = [cur EXCEPT ![g].data.userid = lastUser + 1]
    <2> DEFINE new == lastUser + 1
    <2>1. lastUser \in Nat /\ new \in Nat /\ login \in [Groups -> Nat]
      BY SMT DEF TypeOK, AddressInv, Users
    <2>2. User(g)' = new
      <3>1. cur[g] \in Requests /\ cur'[g] = [cur[g] EXCEPT !.data.userid = new]
        BY <1>3 DEF TypeOK
      <3>2. cur'[g].data.userid = new
        BY <3>1, SMT DEF Requests, Datas
      <3> QED BY <3>2 DEF User
    <2>3. /\ login' \in [Groups -> Nat] /\ login'[g] = new /\ pc'[g] = "public"
          /\ lastUser' = new
          /\ \A h \in Groups \ {g} :
               /\ pc'[h] = pc[h] /\ short'[h] = short[h] /\ at'[h] = at[h]
               /\ peak'[h] = peak[h] /\ login'[h] = login[h] /\ User(h)' = User(h)
      BY <1>1, <1>3, <2>1 DEF PrivInv, TypeOK, User
    <2>4. /\ misread \subseteq 0 .. lastUser
          /\ \A h \in Groups : /\ login[h] <= lastUser
                               /\ data[h].userid \in {0, login[h]}
                               /\ User(h) \in {0, login[h]}
          /\ \A n \in 1 .. Len(pub) : pub[n].name <= lastUser
          /\ \A f, h \in Groups : f # h /\ login[f] # 0 => login[f] # login[h]
      BY DEF AddressInv, Users
    <2>5. /\ new \notin misread
          /\ \A h \in Groups : login[h] \in Nat /\ login[h] # new
          /\ \A n \in 1 .. Len(pub) : pub[n].name # new /\ pub[n].name \in Nat
      BY <2>1, <2>4, PubFacts, SMT
    <2>6. lastUser < new
      BY <2>1, SMT
    <2> HIDE DEF new
    <2>7. Users'
      <3>1. misread' \subseteq 0 .. lastUser'
        BY <1>1, <2>1, <2>3, <2>4, <2>6, SMT
      <3>2. ASSUME NEW h \in Groups
            PROVE  /\ login'[h] <= lastUser'
                   /\ data'[h].userid \in {0, login'[h]}
                   /\ User(h)' \in {0, login'[h]}
        <4>1. CASE h = g
          BY <1>1, <1>3, <2>1, <2>2, <2>3, <2>4, <4>1
        <4>2. CASE h # g
          BY <1>1, <2>1, <2>3, <2>4, <2>5, <2>6, <4>2
        <4> QED BY <4>1, <4>2
      <3>3. \A f, h \in Groups : f # h /\ login'[f] # 0 => login'[f] # login'[h]
        BY <2>3, <2>4, <2>5
      <3>4. \A n \in 1 .. Len(pub') : pub'[n].name <= lastUser'
        BY <1>1, <2>1, <2>3, <2>4, <2>5, <2>6
      <3> QED BY <2>3, <3>1, <3>2, <3>3, <3>4 DEF Users
    <2>8. Room(g)'
      BY <1>1, <2>3 DEF Room, AddressInv
    <2>9. PublicOf(login[g])' = {}
      <3>1. \A n \in PublicOf(login[g])' : n \in DOMAIN pub /\ pub[n].name = new
        BY <1>1, <2>3 DEF PublicOf
      <3> QED BY <2>5, <3>1, PubFacts
    <2>10. Held(g)'
      <3>1. pc'[g] # "pool" /\ pc'[g] # "reserve"
        BY <2>3
      <3> QED BY <2>9, <3>1 DEF Held
    <2>11. Len(pub) <= Len(pub')
      BY <1>1, PubFacts, SMT
    <2> QED BY <1>1, <2>3, <2>7, <2>8, <2>10, <2>11, OwnStep DEF AddressInv
  <1> QED BY <1>1, <1>2, <1>3

\* The number of addresses to reserve is what the network has too little.
LEMMA ReadSizePub ==
    ASSUME TypeOK, TypeOK', PrivInv, AddressInv, NEW g \in Groups, ReadSize(g)
    PROVE  AddressInv'
  <1> DEFINE u    == login[g]
             nets == PublicOf(User(g))
             sum  == MapThenSumSet(LAMBDA n : pub[n].size, nets)
  <1>1. User(g) = u /\ u # 0 /\ u <= lastUser /\ u \in Nat
    <2>1. pc[g] = "size" /\ User(g) # 0 /\ User(g) \in {0, u}
      BY DEF ReadSize, PrivInv, At, AddressInv, Users
    <2> QED BY <2>1 DEF AddressInv, Users
  <1>2. PICK seen \in BOOLEAN :
          /\ misread' = IF seen THEN misread ELSE misread \cup {User(g)}
          /\ LET size == IF seen THEN sum ELSE 0 IN
             IF Lacking(g, size)
             THEN /\ short' = [short EXCEPT ![g] = Missing(g, size)]
                  /\ Go(g, "pool")
             ELSE UNCHANGED short /\ Go(g, "private")
    BY DEF ReadSize
  <1>3. /\ UNCHANGED <<pub, login, lastUser, need, peak, data, cur, at>>
        /\ pc[g] = "size" /\ short[g] \in 0 .. peak[g] /\ peak[g] \in Nat
        /\ DOMAIN short = Groups
    BY DEF ReadSize, one, core, AddressInv, Room
  <1>4. /\ DOMAIN short' = Groups /\ pc'[g] \in {"pool", "private"}
        /\ \A h \in Groups \ {g} :
              /\ pc'[h] = pc[h] /\ short'[h] = short[h] /\ at'[h] = at[h]
              /\ peak'[h] = peak[h] /\ login'[h] = login[h] /\ User(h)' = User(h)
    <2> HIDE DEF sum, nets
    <2>1. \/ short' = short
          \/ \E x : short' = [short EXCEPT ![g] = x]
      BY <1>2
    <2>2. Go(g, "pool") \/ Go(g, "private")
      BY <1>2
    <2> QED BY <1>3, <2>1, <2>2 DEF Go, PrivInv, User
  <1>5. Users'
    <2>1. lastUser \in Nat /\ misread \subseteq 0 .. lastUser
      BY DEF TypeOK, AddressInv, Users
    <2>2. misread' \subseteq 0 .. lastUser
      BY <1>1, <1>2, <2>1
    <2>3. \A h \in Groups : User(h)' = User(h)
      BY <1>3 DEF User
    <2> QED BY <1>3, <2>2, <2>3, SameUsers DEF AddressInv, Users
  <1>6. Room(g)'
    BY <1>4 DEF Room
  <1>7. Held(g)'
    <2> SUFFICES ASSUME u \notin misread' PROVE Held(g)'
      BY <1>3 DEF Held
    <2>1. seen /\ u \notin misread
      BY <1>1, <1>2
    <2>2. /\ \A m, n \in PublicOf(u) : m = n
          /\ \A n \in PublicOf(u) : pub[n].size <= peak[g]
      BY <1>1, <2>1 DEF AddressInv, Held
    <2>3. PublicOf(u)' = PublicOf(u) /\ nets = PublicOf(u)
      BY <1>1, <1>3 DEF PublicOf
    <2>4. \A n \in PublicOf(u) : pub[n].size \in Nat
      BY PubFacts DEF PublicOf
    <2>5. /\ nets = {} => sum = 0
          /\ \A n \in nets : sum = pub[n].size
      BY <2>2, <2>3, <2>4, SizeOfOne
    <2> HIDE DEF sum
    <2>6. sum \in Nat
      BY <2>3, <2>4, <2>5
    <2>7. IF short[g] > sum
          THEN short'[g] = short[g] - sum
          ELSE pc'[g] = "private"
      BY <1>2, <1>3, <2>1 DEF Lacking, Missing, Go, PrivInv
    <2>8. pc'[g] = "pool" => short'[g] \in 0 .. peak[g] /\ short'[g] + sum <= peak[g]
      BY <1>3, <2>6, <2>7, SMT
    <2> HIDE DEF u, nets
    <2>9. \A n \in PublicOf(u) : pc'[g] = "pool" => pub[n].size + short'[g] <= peak[g]
      BY <1>3, <2>3, <2>4, <2>5, <2>8
    <2> QED BY <1>3, <1>4, <2>2, <2>3, <2>8, <2>9 DEF Held, u
  <1>8. Len(pub) <= Len(pub') /\ misread \subseteq misread'
    BY <1>2, <1>3, PubFacts, SMT
  <1>9. need' \in [Groups -> Nat] /\ peak' \in [Groups -> Nat]
    BY <1>3 DEF AddressInv
  <1> HIDE DEF u, sum, nets
  <1> QED BY <1>3, <1>4, <1>5, <1>6, <1>7, <1>8, <1>9, OwnStep

\* Reserving begins with the user's network, if there is one.
LEMMA FindPoolPub ==
    ASSUME TypeOK, TypeOK', PrivInv, AddressInv, NEW g \in Groups, FindPool(g)
    PROVE  AddressInv'
  <1>1. CASE Return(g)
    <2>1. /\ UNCHANGED <<pub, login, lastUser, need, peak, data, short, misread, cur, at>>
          /\ pc' = [pc EXCEPT ![g] = "publish"]
      BY <1>1 DEF Return, one, core, Go
    <2>2. "publish" \in Steps \ {"user", "public", "pool", "reserve"}
      BY DEF Steps
    <2>3. \A h \in Groups : User(h)' = User(h)
      BY <2>1 DEF User
    <2> QED BY <2>1, <2>2, <2>3, QuietPub
  <1>2. CASE ~Return(g)
    <2> DEFINE u == login[g]
    <2>1. /\ UNCHANGED <<pub, login, lastUser, need, peak, data, short, cur>>
          /\ pc[g] = "pool" /\ pc' = [pc EXCEPT ![g] = "reserve"]
      BY <1>2 DEF FindPool, one, core, Go
    <2>2. User(g) = u /\ u # 0 /\ u <= lastUser /\ u \in Nat
      <3>1. User(g) # 0 /\ User(g) \in {0, u}
        BY <2>1 DEF PrivInv, At, AddressInv, Users
      <3> QED BY <3>1 DEF AddressInv, Users
    <2>3. \/ \E n \in PublicOf(u) : at' = [at EXCEPT ![g] = n] /\ misread' = misread
          \/ PublicOf(u) = {} /\ at' = [at EXCEPT ![g] = 0] /\ misread' = misread
          \/ at' = [at EXCEPT ![g] = 0] /\ misread' = misread \cup {u}
      BY <1>2, <2>2 DEF FindPool
    <2>4. /\ at \in [Groups -> Nat]
          /\ \A n \in PublicOf(u) : n \in 1 .. Len(pub) /\ pub[n].name = u
      BY PubFacts DEF TypeOK, PublicOf
    <2>5. /\ pc'[g] = "reserve" /\ misread \subseteq misread'
          /\ \A h \in Groups \ {g} : pc'[h] = pc[h] /\ at'[h] = at[h]
      BY <2>1, <2>3, <2>4 DEF PrivInv
    <2>6. \/ at'[g] \in PublicOf(u) /\ misread' = misread
          \/ at'[g] = 0 /\ PublicOf(u) = {} /\ misread' = misread
          \/ at'[g] = 0 /\ u \in misread'
      BY <2>3, <2>4
    <2>7. \A h \in Groups : User(h)' = User(h)
      BY <2>1 DEF User
    <2>8. Users'
      <3>1. lastUser \in Nat /\ misread \subseteq 0 .. lastUser
        BY DEF TypeOK, AddressInv, Users
      <3>2. misread' = misread \/ misread' = misread \cup {u}
        BY <2>3
      <3>3. u \in 0 .. lastUser
        BY <2>2, <3>1, SMT
      <3>4. misread' \subseteq 0 .. lastUser
        BY <3>1, <3>2, <3>3
      <3> QED BY <2>1, <2>7, <3>4, SameUsers DEF AddressInv, Users
    <2>9. Room(g)'
      BY <2>1, <2>2, <2>4, <2>5, <2>6, <2>7 DEF Room
    <2>10. Held(g)'
      <3>1. PublicOf(u)' = PublicOf(u)
        BY <2>1 DEF PublicOf
      <3>2. SUFFICES ASSUME u \notin misread' PROVE Held(g)'
        BY <2>1 DEF Held
      <3>3. u \notin misread
        BY <2>5, <3>2
      <3>4. /\ \A m, n \in PublicOf(u) : m = n
            /\ \A n \in PublicOf(u) : pub[n].size <= peak[g]
            /\ short[g] \in 0 .. peak[g]
            /\ \A n \in PublicOf(u) : pub[n].size + short[g] <= peak[g]
        BY <2>1, <2>2, <3>3 DEF AddressInv, Held
      <3>5. /\ PublicOf(u) \subseteq {at'[g]}
            /\ at'[g] # 0 => pub[at'[g]].size + short[g] <= peak[g]
        BY <2>6, <3>2, <3>4
      <3> HIDE DEF u
      <3> QED BY <2>1, <2>5, <3>1, <3>4, <3>5 DEF Held, u
    <2>11. Len(pub) <= Len(pub')
      BY <2>1, PubFacts, SMT
    <2> HIDE DEF u
    <2> QED BY <2>1, <2>5, <2>7, <2>8, <2>9, <2>10, <2>11, OwnStep DEF AddressInv
  <1> QED BY <1>1, <1>2

\* Every address reserved is one less to reserve.
LEMMA ReservePub ==
    ASSUME TypeOK, TypeOK', PrivInv, AddressInv, NEW g \in Groups, Reserve(g)
    PROVE  AddressInv'
  <1>1. CASE Return(g)
    <2>1. /\ UNCHANGED <<pub, login, lastUser, need, peak, data, short, misread, cur, at>>
          /\ pc' = [pc EXCEPT ![g] = "publish"]
      BY <1>1 DEF Return, one, core, Go
    <2>2. "publish" \in Steps \ {"user", "public", "pool", "reserve"}
      BY DEF Steps
    <2>3. \A h \in Groups : User(h)' = User(h)
      BY <2>1 DEF User
    <2> QED BY <2>1, <2>2, <2>3, QuietPub
  <1>2. CASE ~Return(g)
    <2> DEFINE u   == login[g]
               i   == at[g]
               new == Len(pub) + 1
    <2>1. /\ UNCHANGED <<login, lastUser, need, peak, data, misread, cur, pc>>
          /\ pc[g] = "reserve" /\ short[g] > 0
          /\ short' = [short EXCEPT ![g] = @ - 1]
      BY <1>2 DEF Reserve, core
    <2>2. User(g) = u /\ u # 0 /\ u <= lastUser /\ u \in Nat
      <3>1. User(g) # 0 /\ User(g) \in {0, u}
        BY <2>1 DEF PrivInv, At, AddressInv, Users
      <3> QED BY <3>1 DEF AddressInv, Users
    <2>3. /\ Len(pub) \in Nat /\ DOMAIN pub = 1 .. Len(pub) /\ pub \in Seq(Publics)
          /\ i \in Nat /\ at \in [Groups -> Nat] /\ peak[g] \in Nat
          /\ DOMAIN short = Groups
          /\ i # 0 => i \in 1 .. Len(pub) /\ pub[i].name = u
          /\ \A n \in 1 .. Len(pub) :
                pub[n].name \in Nat /\ pub[n].owner \in Nat /\ pub[n].size \in Nat
      BY <2>1, <2>2, PubFacts DEF TypeOK, AddressInv, Room
    <2>4. \/ /\ i = 0 /\ at' = [at EXCEPT ![g] = new]
             /\ pub' = Append(pub, [name |-> u, owner |-> 0, size |-> 1])
          \/ /\ i # 0 /\ at' = at
             /\ pub' = [pub EXCEPT ![i].size = @ + 1]
      BY <1>2, <2>2 DEF Reserve
    <2>5. /\ \A h \in Groups \ {g} : short'[h] = short[h] /\ at'[h] = at[h]
          /\ short'[g] = short[g] - 1 /\ DOMAIN short' = Groups
      BY <2>1, <2>3, <2>4
    <2>6. /\ i = 0 => at'[g] = new
          /\ i # 0 => at'[g] = i
      BY <2>3, <2>4
    <2>7. /\ i = 0 => Len(pub') = new
          /\ i # 0 => Len(pub') = Len(pub)
          /\ \A n \in 1 .. Len(pub) :
                /\ pub'[n].name = pub[n].name /\ pub'[n].owner = pub[n].owner
                /\ n # i => pub'[n] = pub[n]
                /\ n = i => pub'[n].size = pub[n].size + 1
          /\ i = 0 => /\ pub'[new].name = u /\ pub'[new].owner = 0
                      /\ pub'[new].size = 1
      <3>1. CASE i = 0
        <4> DEFINE net == [name |-> u, owner |-> 0, size |-> 1]
        <4>1. net.name = u /\ net.owner = 0 /\ net.size = 1
          OBVIOUS
        <4> HIDE DEF net
        <4>2. pub' = Append(pub, net)
          BY <2>4, <3>1 DEF net
        <4>3. /\ Len(pub') = new /\ pub'[new] = net
              /\ \A n \in 1 .. Len(pub) : pub'[n] = pub[n]
          BY <2>3, <4>2
        <4>4. \A n \in 1 .. Len(pub) : n # 0
          BY SMT
        <4> HIDE DEF i, new, u
        <4> QED BY <3>1, <4>1, <4>3, <4>4
      <3>2. CASE i # 0
        <4> DEFINE e == [pub[i] EXCEPT !.size = @ + 1]
        <4>1. pub[i] \in Publics /\ i \in 1 .. Len(pub)
          BY <2>3, <3>2
        <4>2. /\ e \in Publics /\ e.name = pub[i].name /\ e.owner = pub[i].owner
              /\ e.size = pub[i].size + 1
          BY <4>1, SMT DEF Publics
        <4>3. pub' = [pub EXCEPT ![i] = e]
          BY <2>4, <3>2
        <4> HIDE DEF e, i
        <4>4. /\ Len(pub') = Len(pub)
              /\ \A n \in 1 .. Len(pub) : (n = i => pub'[n] = e) /\ (n # i => pub'[n] = pub[n])
          BY <2>3, <4>2, <4>3, Written
        <4> QED BY <3>2, <4>2, <4>4
      <3> QED BY <3>1, <3>2
    <2>8. \A h \in Groups : User(h)' = User(h)
      BY <2>1 DEF User
    <2> HIDE DEF u, i, new
    <2>9. /\ Len(pub) <= Len(pub')
          /\ \A n \in 1 .. Len(pub) : pub'[n] = pub[n] \/ (pub[n].name = u /\ u # 0)
          /\ \A n \in 1 .. Len(pub') :
                n \in 1 .. Len(pub) \/ (pub'[n].name = u /\ u # 0)
      BY <2>2, <2>3, <2>7, SMT DEF new
    <2>10. Users'
      <3>1. \A n \in 1 .. Len(pub) : pub[n].name <= lastUser
        BY DEF AddressInv, Users
      <3>2. \A n \in 1 .. Len(pub') : pub'[n].name <= lastUser
        BY <2>2, <2>7, <2>9, <3>1
      <3> QED BY <2>1, <2>8, <3>2, SameUsers DEF AddressInv, Users
    <2>11. at'[g] \in 1 .. Len(pub') /\ pub'[at'[g]].name = u
      BY <2>3, <2>6, <2>7, SMT DEF new
    <2>12. Room(g)'
      BY <2>1, <2>2, <2>8, <2>11 DEF Room
    <2>13. Held(g)'
      <3>1. SUFFICES ASSUME u \notin misread PROVE Held(g)'
        BY <2>1 DEF Held, u
      <3>2. /\ short[g] \in 0 .. peak[g]
            /\ PublicOf(u) \subseteq {i}
            /\ i # 0 => pub[i].size + short[g] <= peak[g]
        BY <2>1, <2>2, <3>1 DEF AddressInv, Held, u, i
      <3>3. /\ short'[g] \in 0 .. peak[g]
            /\ pub'[at'[g]].size + short'[g] <= peak[g]
            /\ pub'[at'[g]].size <= peak[g]
        <4>1. CASE i = 0
          <5>1. pub'[at'[g]].size = 1
            BY <2>6, <2>7, <4>1
          <5> QED BY <2>1, <2>3, <2>5, <3>2, <5>1, SMT
        <4>2. CASE i # 0
          <5>1. pub'[at'[g]].size = pub[i].size + 1 /\ pub[i].size \in Nat
            BY <2>3, <2>6, <2>7, <4>2
          <5>2. pub[i].size + short[g] <= peak[g]
            BY <3>2, <4>2
          <5> QED BY <2>1, <2>3, <2>5, <3>2, <5>1, <5>2, SMT
        <4> QED BY <4>1, <4>2
      <3>4. ASSUME NEW n \in 1 .. Len(pub'), n # at'[g],
                   pub'[n].name = u, pub'[n].owner = u, pub'[n].size > 0
            PROVE  FALSE
        <4>1. n \in 1 .. Len(pub) /\ n # i
          <5>1. CASE i = 0
            <6>1. n \in 1 .. Len(pub)
              BY <2>3, <2>6, <2>7, <3>4, <5>1, SMT DEF new
            <6> QED BY <5>1, <6>1, SMT
          <5>2. CASE i # 0
            BY <2>6, <2>7, <3>4, <5>2
          <5> QED BY <5>1, <5>2
        <4>2. pub'[n] = pub[n]
          BY <2>7, <4>1
        <4>3. n \in PublicOf(u)
          BY <2>3, <3>4, <4>1, <4>2 DEF PublicOf
        <4> QED BY <3>2, <4>1, <4>3
      <3>5. PublicOf(login[g])' \subseteq {at'[g]}
        <4>1. \A n \in PublicOf(login[g])' :
                 /\ n \in DOMAIN pub' /\ pub'[n].name = u /\ pub'[n].owner = u
                 /\ pub'[n].size > 0
          BY <2>1 DEF PublicOf, u
        <4>2. DOMAIN pub' = 1 .. Len(pub')
          BY DEF TypeOK
        <4> QED BY <3>4, <4>1, <4>2
      <3>6. /\ \A m, n \in PublicOf(login[g])' : m = n
            /\ \A n \in PublicOf(login[g])' : pub'[n].size <= peak'[g]
        BY <2>1, <3>3, <3>5
      <3> QED BY <2>1, <3>3, <3>5, <3>6 DEF Held
    <2>14. need' \in [Groups -> Nat] /\ peak' \in [Groups -> Nat]
      BY <2>1 DEF AddressInv
    <2>15. \A n \in 1 .. Len(pub) : pub'[n].name = pub[n].name
      BY <2>7
    <2> QED BY <2>1, <2>5, <2>8, <2>9, <2>10, <2>12, <2>13, <2>14, <2>15, OwnStep DEF u
  <1> QED BY <1>1, <1>2

\* The network is given away when all its addresses are reserved.
LEMMA ChownPublicPub ==
    ASSUME TypeOK, TypeOK', PrivInv, AddressInv, NEW g \in Groups, ChownPublic(g)
    PROVE  AddressInv'
  <1> DEFINE u == login[g]
             i == at[g]
  <1>1. /\ UNCHANGED <<login, lastUser, need, peak, data, misread, short, at>>
        /\ pc[g] = "reserve" /\ short[g] = 0
        /\ pc' = [pc EXCEPT ![g] = "private"]
        /\ cur' = [cur EXCEPT ![g].data.public_vn = at[g]]
    BY DEF ChownPublic, core, Go
  <1>2. User(g) = u /\ u # 0 /\ u <= lastUser /\ u \in Nat
    <2>1. User(g) # 0 /\ User(g) \in {0, u}
      BY <1>1 DEF PrivInv, At, AddressInv, Users
    <2> QED BY <2>1 DEF AddressInv, Users
  <1>3. \A h \in Groups : User(h)' = User(h)
    <2>1. cur[g] \in Requests /\ cur'[g] = [cur[g] EXCEPT !.data.public_vn = at[g]]
      BY <1>1 DEF TypeOK
    <2>2. User(g)' = User(g)
      BY <2>1, SMT DEF Requests, Datas, User
    <2>3. \A h \in Groups \ {g} : cur'[h] = cur[h]
      BY <1>1 DEF TypeOK
    <2> QED BY <2>2, <2>3 DEF User
  <1>4. /\ pub \in Seq(Publics) /\ DOMAIN pub = 1 .. Len(pub)
        /\ i # 0 => i \in 1 .. Len(pub) /\ pub[i].name = u
        /\ i \in 1 .. Len(pub) => i # 0
    BY <1>1, <1>2, PubFacts, SMT DEF TypeOK, AddressInv, Room
  <1>5. /\ Len(pub') = Len(pub)
        /\ \A n \in 1 .. Len(pub) :
              /\ pub'[n].name = pub[n].name /\ pub'[n].size = pub[n].size
              /\ n # i => pub'[n] = pub[n]
    <2> DEFINE e == [pub[i] EXCEPT !.owner = User(g)]
    <2>1. pub' = pub \/ pub' = [pub EXCEPT ![i] = e]
      BY DEF ChownPublic
    <2>2. i \in 1 .. Len(pub) =>
             e \in Publics /\ e.name = pub[i].name /\ e.size = pub[i].size
      <3>1. ASSUME i \in 1 .. Len(pub) PROVE pub[i] \in Publics
        BY <1>4, <3>1
      <3>2. User(g) \in Nat
        BY <1>2
      <3>3. ASSUME NEW r \in Publics, NEW o \in Nat
            PROVE  LET d == [r EXCEPT !.owner = o] IN
                   d \in Publics /\ d.name = r.name /\ d.size = r.size
        BY SMT DEF Publics
      <3> HIDE DEF i
      <3> QED BY <3>1, <3>2, <3>3
    <2> HIDE DEF e, i
    <2> QED BY <1>4, <2>1, <2>2, Written
  <1>6. /\ pc'[g] = "private"
        /\ \A h \in Groups \ {g} : pc'[h] = pc[h]
    BY <1>1 DEF PrivInv
  <1>7. Len(pub) \in Nat
    BY PubFacts
  <1> HIDE DEF u, i
  <1>8. /\ Len(pub) <= Len(pub')
        /\ \A n \in 1 .. Len(pub) : pub'[n] = pub[n] \/ (pub[n].name = u /\ u # 0)
        /\ \A n \in 1 .. Len(pub') : n \in 1 .. Len(pub)
    BY <1>2, <1>4, <1>5, <1>7, SMT
  <1>9. Users'
    <2>1. \A n \in 1 .. Len(pub) : pub[n].name <= lastUser
      BY DEF AddressInv, Users
    <2> QED BY <1>1, <1>3, <1>5, <2>1, SameUsers DEF AddressInv, Users
  <1>10. Room(g)'
    BY <1>6 DEF Room
  <1>11. Held(g)'
    <2>1. SUFFICES ASSUME u \notin misread PROVE Held(g)'
      BY <1>1 DEF Held, u
    <2>2. /\ PublicOf(u) \subseteq {i}
          /\ i # 0 => pub[i].size + short[g] <= peak[g]
      BY <1>1, <1>2, <2>1 DEF AddressInv, Held, u, i
    <2>3. PublicOf(login[g])' \subseteq {i}
      <3>1. \A n \in PublicOf(login[g])' :
                 /\ n \in DOMAIN pub' /\ pub'[n].name = u /\ pub'[n].owner = u
                 /\ pub'[n].size > 0
        BY <1>1 DEF PublicOf, u
      <3>2. DOMAIN pub' = 1 .. Len(pub')
        BY DEF TypeOK
      <3>3. ASSUME NEW n \in PublicOf(login[g])', n # i PROVE FALSE
        <4>1. n \in 1 .. Len(pub) /\ pub'[n] = pub[n]
          BY <1>5, <3>1, <3>2, <3>3
        <4>2. n \in PublicOf(u)
          BY <1>4, <3>1, <3>3, <4>1 DEF PublicOf
        <4> QED BY <2>2, <3>3, <4>2
      <3> QED BY <3>3
    <2>4. \A n \in PublicOf(login[g])' : pub'[n].size <= peak'[g]
      <3>1. \A n \in PublicOf(login[g])' : n = i /\ n \in 1 .. Len(pub) /\ n # 0
        <4>1. \A n \in PublicOf(login[g])' : n \in 1 .. Len(pub')
          BY DEF PublicOf, TypeOK
        <4> QED BY <1>4, <1>5, <2>3, <4>1
      <3>2. \A n \in 1 .. Len(pub) : pub[n].size \in Nat
        BY PubFacts
      <3> QED BY <1>1, <1>5, <2>2, <3>1, <3>2
    <2>5. \A m, n \in PublicOf(login[g])' : m = n
      BY <2>3
    <2> QED BY <1>6, <2>4, <2>5 DEF Held
  <1>12. need' \in [Groups -> Nat] /\ peak' \in [Groups -> Nat] /\ DOMAIN short' = Groups
    BY <1>1 DEF AddressInv
  <1> QED BY <1>1, <1>3, <1>5, <1>6, <1>8, <1>9, <1>10, <1>11, <1>12, OwnStep DEF u

LEMMA PublishPub ==
    ASSUME TypeOK, TypeOK', PrivInv, AddressInv, NEW g \in Groups, Publish(g)
    PROVE  AddressInv'
  <1>1. /\ UNCHANGED <<pub, login, lastUser, need, peak, misread>>
        /\ data' = [data EXCEPT ![g] = cur[g].data]
        /\ pc' = [pc EXCEPT ![g] = "idle"]
        /\ cur' = [cur EXCEPT ![g] = Idle]
        /\ short' = [short EXCEPT ![g] = 0] /\ at' = [at EXCEPT ![g] = 0]
    BY DEF Publish, Finish, one, Go
  <1>2. Idle.data.userid = 0
    BY SMT DEF Idle, NoData
  <1>3. /\ pc'[g] = "idle" /\ data'[g].userid = User(g) /\ User(g)' = 0
        /\ DOMAIN short' = Groups
        /\ \A h \in Groups \ {g} :
              /\ pc'[h] = pc[h] /\ short'[h] = short[h] /\ at'[h] = at[h]
              /\ peak'[h] = peak[h] /\ login'[h] = login[h] /\ User(h)' = User(h)
              /\ data'[h] = data[h]
    BY <1>1, <1>2 DEF PrivInv, AddressInv, TypeOK, User
  <1>4. Users'
    <2>1. \A h \in Groups : /\ data'[h].userid \in {data[h].userid, User(h)}
                            /\ User(h)' \in {0, User(h)}
      BY <1>3
    <2> QED BY <1>1, <2>1, SameUsers DEF AddressInv, Users
  <1>5. Room(g)'
    BY <1>3 DEF Room
  <1>6. Held(g)'
    BY <1>1, <1>3 DEF Held, AddressInv, PublicOf
  <1>7. Len(pub) <= Len(pub')
    BY <1>1, PubFacts, SMT
  <1> QED BY <1>1, <1>3, <1>4, <1>5, <1>6, <1>7, OwnStep DEF AddressInv

\* Down deletes the network of the group's user, and the user.
LEMMA DownPub ==
    ASSUME TypeOK, TypeOK', PrivInv, AddressInv, NEW g \in Groups, Down(g)
    PROVE  AddressInv'
  <1> DEFINE u == login[g]
  <1>1. /\ UNCHANGED <<lastUser, need, pc, cur, short, at, misread>>
        /\ pc[g] = "idle" /\ data[g].userid # 0
        /\ data' = [data EXCEPT ![g] = NoData]
        /\ \/ UNCHANGED <<login, peak>>
           \/ login' = [login EXCEPT ![g] = 0] /\ peak' = [peak EXCEPT ![g] = 0]
    BY DEF Down
  <1>2. data[g].userid = u /\ u # 0 /\ User(g) = 0
    BY <1>1 DEF AddressInv, Users, PrivInv, At
  <1>3. PICK p \in BOOLEAN :
          pub' = [n \in DOMAIN pub |->
                    IF p /\ PublicOf(u) = {n} THEN [pub[n] EXCEPT !.size = 0] ELSE pub[n]]
    BY <1>2 DEF Down
  <1>4. /\ Len(pub) \in Nat /\ DOMAIN pub = 1 .. Len(pub) /\ Len(pub') = Len(pub)
        /\ pub \in Seq(Publics)
        /\ \A n \in 1 .. Len(pub) :
              /\ pub'[n] = pub[n] \/ (n \in PublicOf(u) /\ pub'[n] = [pub[n] EXCEPT !.size = 0])
    <2>1. /\ pub \in Seq(Publics) /\ pub' \in Seq(Publics)
          /\ DOMAIN pub = 1 .. Len(pub) /\ Len(pub) \in Nat
      BY DEF TypeOK
    <2>2. DOMAIN pub' = 1 .. Len(pub)
      BY <1>3, <2>1
    <2>3. Len(pub') = Len(pub)
      BY <2>1, <2>2
    <2>4. ASSUME NEW n \in 1 .. Len(pub)
          PROVE  pub'[n] = pub[n] \/ (n \in PublicOf(u) /\ pub'[n] = [pub[n] EXCEPT !.size = 0])
      <3>1. pub'[n] = IF p /\ PublicOf(u) = {n} THEN [pub[n] EXCEPT !.size = 0] ELSE pub[n]
        BY <1>3, <2>1
      <3> QED BY <3>1
    <2> QED BY <2>1, <2>3, <2>4
  <1>5. \A n \in 1 .. Len(pub) :
           /\ pub'[n].name = pub[n].name /\ pub'[n].owner = pub[n].owner
           /\ pub'[n].size \in {0, pub[n].size}
           /\ pub'[n] = pub[n] \/ pub[n].name = u
    <2>1. ASSUME NEW r \in Publics
          PROVE  LET e == [r EXCEPT !.size = 0] IN
                 e.name = r.name /\ e.owner = r.owner /\ e.size = 0
      BY SMT DEF Publics
    <2>2. \A n \in 1 .. Len(pub) : pub[n] \in Publics
      BY <1>4
    <2>3. \A n \in PublicOf(u) : pub[n].name = u
      BY DEF PublicOf
    <2> HIDE DEF u
    <2> QED BY <1>4, <2>1, <2>2, <2>3
  <1>6. /\ peak[g] \in Nat /\ login \in [Groups -> Nat] /\ peak \in [Groups -> Nat]
        /\ NoData.userid = 0
    BY SMT DEF AddressInv, Users, NoData
  <1>7. /\ login' \in [Groups -> Nat] /\ peak' \in [Groups -> Nat]
        /\ login'[g] = 0 \/ (login'[g] = u /\ peak'[g] = peak[g])
        /\ data'[g].userid = 0
        /\ \A h \in Groups \ {g} :
              login'[h] = login[h] /\ peak'[h] = peak[h] /\ data'[h] = data[h]
        /\ \A h \in Groups : User(h)' = User(h)
    <2>1. \A h \in Groups : User(h)' = User(h)
      BY <1>1 DEF User
    <2>2. /\ data'[g].userid = 0
          /\ \A h \in Groups \ {g} : data'[h] = data[h]
      BY <1>1, <1>6 DEF TypeOK
    <2>3. CASE UNCHANGED <<login, peak>>
      BY <1>6, <2>1, <2>2, <2>3
    <2>4. CASE login' = [login EXCEPT ![g] = 0] /\ peak' = [peak EXCEPT ![g] = 0]
      BY <1>6, <2>1, <2>2, <2>4
    <2> QED BY <1>1, <2>3, <2>4
  <1> HIDE DEF u
  <1>8. Users'
    <2>1. /\ misread \subseteq 0 .. lastUser /\ lastUser \in Nat
          /\ \A h \in Groups : /\ login[h] <= lastUser
                               /\ data[h].userid \in {0, login[h]}
                               /\ User(h) \in {0, login[h]}
          /\ \A n \in 1 .. Len(pub) : pub[n].name <= lastUser
          /\ \A f, h \in Groups : f # h /\ login[f] # 0 => login[f] # login[h]
      BY DEF TypeOK, AddressInv, Users
    <2>2. \A h \in Groups : /\ login'[h] <= lastUser'
                            /\ data'[h].userid \in {0, login'[h]}
                            /\ User(h)' \in {0, login'[h]}
      BY <1>1, <1>2, <1>7, <2>1 DEF u
    <2>3. \A f, h \in Groups : f # h /\ login'[f] # 0 => login'[f] # login'[h]
      BY <1>7, <2>1 DEF u
    <2>4. \A n \in 1 .. Len(pub') : pub'[n].name <= lastUser'
      BY <1>1, <1>4, <1>5, <2>1
    <2> QED BY <1>1, <1>7, <2>1, <2>2, <2>3, <2>4 DEF Users
  <1>9. Room(g)'
    BY <1>1 DEF Room
  <1>10. Held(g)'
    <2>1. SUFFICES ASSUME login'[g] = u, u \notin misread, peak'[g] = peak[g]
                   PROVE  Held(g)'
      BY <1>1, <1>7 DEF Held
    <2>2. /\ \A m, n \in PublicOf(u) : m = n
          /\ \A n \in PublicOf(u) : pub[n].size <= peak[g]
      BY <1>2, <2>1 DEF AddressInv, Held, u
    <2>3. \A n \in PublicOf(login[g])' : n \in PublicOf(u) /\ pub'[n].size = pub[n].size
      <3>1. \A n \in PublicOf(login[g])' :
                 /\ n \in DOMAIN pub' /\ pub'[n].name = u /\ pub'[n].owner = u
                 /\ pub'[n].size > 0
        BY <2>1 DEF PublicOf
      <3>2. DOMAIN pub' = 1 .. Len(pub')
        BY DEF TypeOK
      <3>3. \A n \in PublicOf(login[g])' : n \in 1 .. Len(pub)
        BY <1>4, <3>1, <3>2
      <3> QED BY <1>4, <1>5, <3>1, <3>3 DEF PublicOf
    <2> QED BY <1>1, <2>1, <2>2, <2>3 DEF Held
  <1>11. need' \in [Groups -> Nat] /\ DOMAIN short' = Groups
    BY <1>1 DEF AddressInv
  <1>12. Len(pub) <= Len(pub')
    BY <1>4, SMT
  <1> QED BY <1>1, <1>2, <1>4, <1>5, <1>7, <1>8, <1>9, <1>10, <1>11, <1>12, OwnStep DEF u

\* A crash leaves networks and users as they are.
LEMMA CrashPub ==
    ASSUME TypeOK, TypeOK', PrivInv, AddressInv, Crash
    PROVE  AddressInv'
  <1>1. /\ UNCHANGED <<pub, login, lastUser, need, peak, data, misread>>
        /\ pc' = [g \in Groups |-> "idle"] /\ cur' = [g \in Groups |-> Idle]
        /\ short' = [g \in Groups |-> 0]
    BY DEF Crash, one, core
  <1>2. Idle.data.userid = 0
    BY SMT DEF Idle, NoData
  <1>3. \A g \in Groups : User(g)' = 0
    BY <1>1, <1>2 DEF User
  <1>4. Users'
    BY <1>1, <1>3, SameUsers DEF AddressInv, Users
  <1>5. \A g \in Groups : pc'[g] = "idle"
    BY <1>1
  <1>6. ASSUME NEW g \in Groups PROVE Room(g)' /\ Held(g)'
    <2>1. Held(g)
      BY DEF AddressInv
    <2> QED BY <1>1, <1>5, <2>1 DEF Room, Held, PublicOf
  <1> QED BY <1>1, <1>4, <1>6 DEF AddressInv

LEMMA PrepareServicePub ==
    ASSUME TypeOK, TypeOK', PrivInv, AddressInv, NEW g \in Groups, PrepareService(g)
    PROVE  AddressInv'
  <1>1. ASSUME UNCHANGED <<pub, login, lastUser, need, peak, data, short, misread>>,
               NEW s \in {"size", "private", "vlan", "chown_private", "publish"},
               s = "size" => pc[g] = "public",
               Go(g, s),
               UNCHANGED cur \/ cur' = [cur EXCEPT ![g].data.private_vn = at[g]],
               UNCHANGED at \/ \E n : at' = [at EXCEPT ![g] = n]
        PROVE  AddressInv'
    <2>1. s \in Steps \ {"user", "public", "pool", "reserve"}
      BY DEF Steps
    <2>2. \A h \in Groups : User(h)' = User(h)
      <3>1. CASE UNCHANGED cur
        BY <3>1 DEF User
      <3>2. CASE cur' = [cur EXCEPT ![g].data.private_vn = at[g]]
        <4>1. cur[g] \in Requests /\ cur'[g] = [cur[g] EXCEPT !.data.private_vn = at[g]]
          BY <3>2 DEF TypeOK
        <4>2. User(g)' = User(g)
          BY <4>1, SMT DEF Requests, Datas, User
        <4>3. \A h \in Groups \ {g} : cur'[h] = cur[h]
          BY <3>2 DEF TypeOK
        <4> QED BY <4>2, <4>3 DEF User
      <3> QED BY <1>1, <3>1, <3>2
    <2>3. \A h \in Groups \ {g} : at'[h] = at[h]
      BY <1>1 DEF TypeOK
    <2> QED BY <1>1, <2>1, <2>2, <2>3, QuietPub DEF Go
  <1>2. ASSUME Return(g) PROVE AddressInv'
    BY <1>1, <1>2 DEF Return, one, core
  <1>3. CASE FindPublic(g)
    <2>1. CASE ~Return(g)
      <3>1. pc[g] = "public" /\ UNCHANGED <<one, core, cur, short, at, misread>> /\ Go(g, "size")
        BY <1>3, <2>1 DEF FindPublic
      <3> QED BY <1>1, <3>1 DEF one, core
    <2> QED BY <1>2, <2>1
  <1>4. CASE FindPrivate(g)
    <2>1. /\ UNCHANGED <<one, core, cur, short, at, misread>>
          /\ Go(g, "vlan") \/ Go(g, "publish")
      BY <1>4 DEF FindPrivate
    <2> QED BY <1>1, <2>1 DEF one, core
  <1>5. CASE ReservePrivateIP(g)
    <2>1. CASE ~Return(g)
      <3>1. /\ UNCHANGED <<login, lastUser, pub, core, cur, short, misread>>
            /\ Go(g, "chown_private") /\ \E n : at' = [at EXCEPT ![g] = n]
        BY <1>5, <2>1 DEF ReservePrivateIP
      <3> QED BY <1>1, <3>1 DEF core
    <2> QED BY <1>2, <2>1
  <1>6. CASE ChownPrivate(g)
    <2>1. /\ UNCHANGED <<login, lastUser, pub, core, short, at, misread>>
          /\ cur' = [cur EXCEPT ![g].data.private_vn = at[g]]
          /\ Go(g, "publish")
      BY <1>6 DEF ChownPrivate
    <2> QED BY <1>1, <2>1 DEF core
  <1> QED
    BY <1>3, <1>4, <1>5, <1>6, CreateUserPub, ReadSizePub, FindPoolPub, ReservePub,
       ChownPublicPub, PublishPub
    DEF PrepareService

LEMMA AddressInit == Init => AddressInv
  <1> SUFFICES ASSUME Init PROVE AddressInv
    OBVIOUS
  <1>1. /\ login = [g \in Groups |-> 0] /\ lastUser = 0 /\ pub = << >>
        /\ need \in [Groups -> 0 .. MaxNeed] /\ peak = [g \in Groups |-> 0]
        /\ short = [g \in Groups |-> 0] /\ misread = {}
        /\ pc = [g \in Groups |-> "idle"]
        /\ data = [g \in Groups |-> NoData] /\ cur = [g \in Groups |-> Idle]
    BY DEF Init
  <1>2. NoData.userid = 0 /\ Idle.data.userid = 0
    BY SMT DEF NoData, Idle
  <1>3. \A g \in Groups : login[g] = 0 /\ data[g].userid = 0 /\ User(g) = 0 /\ pc[g] = "idle"
    BY <1>1, <1>2 DEF User
  <1>4. 1 .. Len(pub) = {}
    BY <1>1, SMT
  <1>5. Users
    BY <1>1, <1>3, <1>4 DEF Users
  <1>6. \A g \in Groups : Room(g) /\ Held(g)
    BY <1>3 DEF Room, Held
  <1>7. MaxNeed \in Nat
    BY NetworkAssumption
  <1>8. need \in [Groups -> Nat]
    BY <1>1, <1>7
  <1> QED BY <1>1, <1>5, <1>6, <1>8 DEF AddressInv

LEMMA AddressStep ==
    TypeOK /\ TypeOK' /\ PrivInv /\ AddressInv /\ [Next]_vars => AddressInv'
  <1> SUFFICES ASSUME TypeOK, TypeOK', PrivInv, AddressInv, [Next]_vars PROVE AddressInv'
    OBVIOUS
  <1>1. ASSUME UNCHANGED <<login, lastUser, pub, data, peak, pc, cur, short, at, misread>>,
               need' \in [Groups -> Nat]
        PROVE  AddressInv'
    BY <1>1 DEF AddressInv, Users, Room, Held, User, PublicOf
  <1>2. ASSUME NEW g \in Groups, SetNeed(g) PROVE AddressInv'
    <2>1. MaxNeed \in Nat /\ need \in [Groups -> Nat]
      BY NetworkAssumption DEF AddressInv
    <2>2. need' \in [Groups -> Nat]
      BY <1>2, <2>1 DEF SetNeed
    <2> QED BY <1>1, <1>2, <2>2 DEF SetNeed, one
  <1>3. CASE MonitorNetworks \/ UNCHANGED vars
    <2>1. need' \in [Groups -> Nat]
      BY <1>3 DEF MonitorNetworks, vars, core, AddressInv
    <2> QED BY <1>1, <1>3, <2>1 DEF MonitorNetworks, vars, one, core
  <1> QED BY <1>2, <1>3, BeginPub, PrepareServicePub, DownPub, CrashPub DEF Next

\* Whatever calls fail and wherever the process dies, the user of a group owns
\* at most one network of public addresses, and no more addresses than the
\* group ever needed, unless a failing lookup made PrepareService overlook the
\* network.
THEOREM NoSpareAddresses == Spec => []PublicWithinNeed
  <1>1. TypeOK /\ AddressInv => PublicWithinNeed
    <2> SUFFICES ASSUME TypeOK, AddressInv, NEW g \in Groups,
                        login[g] # 0, login[g] \notin misread
                 PROVE  /\ Cardinality(PublicOf(login[g])) <= 1
                        /\ Addresses(login[g]) <= peak[g]
      BY DEF PublicWithinNeed
    <2> DEFINE nets == PublicOf(login[g])
               sum  == MapThenSumSet(LAMBDA n : pub[n].size, nets)
    <2>1. /\ \A m, n \in nets : m = n
          /\ \A n \in nets : pub[n].size <= peak[g]
          /\ peak[g] \in Nat
      BY DEF AddressInv, Held
    <2>2. \A n \in nets : pub[n].size \in Nat
      BY PubFacts DEF PublicOf
    <2>3. nets = {} => sum = 0
      BY <2>1, <2>2, SizeOfOne
    <2>4. \A n \in nets : sum = pub[n].size
      BY <2>1, <2>2, SizeOfOne
    <2>5. Addresses(login[g]) = sum
      BY DEF Addresses
    <2>6. Cardinality(nets) <= 1
      BY <2>1, AtMostOne
    <2> HIDE DEF sum, nets
    <2>7. sum <= peak[g]
      BY <2>1, <2>3, <2>4, SMT
    <2> QED BY <2>5, <2>6, <2>7 DEF nets
  <1>2. VlanInv => TypeOK
    BY DEF VlanInv
  <1> QED BY <1>1, <1>2, VlanInit, VlanStep, PrivInit, PrivStep, AddressInit, AddressStep, PTL DEF Spec

=============================================================================
