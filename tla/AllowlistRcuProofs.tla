------------------------- MODULE AllowlistRcuProofs -------------------------
(***************************************************************************)
(* Proofs about AllowlistRcu, for any number of readers, uids and nodes:   *)
(* references and counts are exact, no lookup meets freed memory, and each *)
(* answers with a state its uid really had.                                *)
(***************************************************************************)
EXTENDS AllowlistRcu, FiniteSetTheorems, SequenceTheorems, TLAPS

-----------------------------------------------------------------------------
(* The inductive invariant *)

\* One linked node per uid, counted.
ListOK ==
    /\ \A i \in 1..Len(chain) : uidOf[chain[i]] \in Uids
    /\ \A i, j \in 1..Len(chain) : uidOf[chain[i]] = uidOf[chain[j]] => i = j
    /\ allow_list_count = Len(chain) + (IF wpc = "prune_put" THEN 1 ELSE 0)
    /\ allow_list_count <= MaxCount

\* Where the node at the writer's hand is.
WriterOK ==
    /\ wpc \in {"put", "prune_put"} => victim \in Nodes \ Linked
    /\ wpc = "prune" => victim \in Linked \cup {Nil}
    /\ wpc = "prune_put" => stale[victim] \in Linked \cup {Nil}

\* No grace period of n can end before r leaves its section.
Guarded(r, n) == mem[n] = "used" \/ (mem[n] = "dying" /\ r \in grace[n])

(* The nodes that r can still reach: closed under the pointers that are    *)
(* in memory, stale ones included.                                         *)
Reaches(r, S) ==
    /\ Linked \subseteq S
    /\ cur[r] \in S \cup {Nil}
    /\ \A n \in S : NextOf(n) \in S \cup {Nil}
    /\ \A n \in S : Guarded(r, n)
    /\ \A n \in S : uidOf[n] = uid[r] => grantOf[n] \in seen[r]

\* Reason enough for r to find nothing.
Absent(r) == "none" \in seen[r] \/ (op[r] # "app" /\ "deny" \in seen[r])

\* Each way on from cur[r] within G leads to a node of r's uid.
Leads(r, G) ==
    /\ cur[r] \in G
    /\ \A n \in G : uidOf[n] = uid[r] \/ NextOf(n) \in G

SectionOK(r) ==
    /\ uid[r] \in Uids
    /\ GrantFor(uid[r]) \in seen[r]
    /\ \E S \in SUBSET Nodes :
          /\ Reaches(r, S)
          /\ rpc[r] = "walk" => Absent(r) \/ \E G \in SUBSET S : Leads(r, G)

SectionInv == \A r \in InSection : SectionOK(r)

\* A reader about to take, or with, a reference.
GetOK(r) ==
    /\ rpc[r] \in {"get", "hold"} => cur[r] \in Nodes
    /\ rpc[r] = "get" =>
          /\ uidOf[cur[r]] = uid[r]
          /\ op[r] = "app" \/ (op[r] = "root" /\ grantOf[cur[r]] = "custom")

GetInv == \A r \in Readers : GetOK(r)

AnswerOK(r) == rpc[r] \in {"hold", "done"} => RightAnswer(r)

\* A node in memory has a profile in it.
FilledIn == \A n \in Nodes : mem[n] # "free" => grantOf[n] \in Grants

RcuInv ==
    TypeOK /\ FilledIn /\ ListOK /\ WriterOK /\ RefcountsExact /\ SectionInv /\ GetInv
    /\ LookupSeesSomeState

-----------------------------------------------------------------------------
(* The list *)

ListTypes ==
    /\ chain \in Seq(Nodes)
    /\ stale \in [Nodes -> Nodes \cup {Nil}]
    /\ uidOf \in [Nodes -> Uids \cup {Nil}]
    /\ grantOf \in [Nodes -> Grants \cup {"none"}]

\* Positions and linked nodes determine each other, pointers of linked nodes
\* stay in the list, and the list has one node of a uid at most, whose grant
\* is the uid's.
PosFacts ==
    /\ Len(chain) \in Nat
    /\ \A i \in 1..Len(chain) : chain[i] \in Linked /\ chain[i] \in Nodes /\ Pos(chain[i]) = i
    /\ \A n \in Linked : Pos(n) \in 1..Len(chain) /\ chain[Pos(n)] = n /\ n \in Nodes

NextFacts ==
    /\ \A n \in Linked : NextOf(n) \in Linked \cup {Nil}
    /\ \A n \in Linked : NextOf(n) = IF Pos(n) = Len(chain) THEN Nil ELSE chain[Pos(n) + 1]
    /\ \A n : n \notin Linked => NextOf(n) = stale[n]
    /\ \A n \in Nodes : NextOf(n) \in Nodes \cup {Nil}
    /\ First \in Linked \cup {Nil}
    /\ First = IF Len(chain) = 0 THEN Nil ELSE chain[1]

GrantFacts ==
    /\ \A m, n \in Linked : uidOf[m] = uidOf[n] => m = n
    /\ \A n \in Linked : uidOf[n] \in Uids
    /\ \A u : \A n \in Linked : uidOf[n] = u => GrantFor(u) = grantOf[n]
    /\ \A u : (\A n \in Linked : uidOf[n] # u) => GrantFor(u) = "none"
    /\ \A u : GrantFor(u) \in Grants \cup {"none"}

LEMMA PosLemma == ListTypes /\ ListOK => PosFacts
<1> SUFFICES ASSUME ListTypes, ListOK PROVE PosFacts
  OBVIOUS
<1>1. Len(chain) \in Nat /\ \A i \in 1..Len(chain) : chain[i] \in Nodes
  BY LenProperties, ElementOfSeq DEF ListTypes
<1>2. \A i, j \in 1..Len(chain) : chain[i] = chain[j] => i = j
  BY DEF ListOK
<1>3. \A i \in 1..Len(chain) : chain[i] \in Linked
  BY DEF Linked
<1>4. ASSUME NEW n \in Linked
      PROVE  Pos(n) \in 1..Len(chain) /\ chain[Pos(n)] = n
  <2>1. PICK i \in 1..Len(chain) : chain[i] = n
    BY DEF Linked
  <2> QED BY <2>1 DEF Pos
<1>5. \A i \in 1..Len(chain) : Pos(chain[i]) = i
  BY <1>2, <1>3, <1>4
<1> QED BY <1>1, <1>3, <1>4, <1>5 DEF PosFacts

LEMMA NextLemma == ListTypes /\ ListOK => NextFacts
<1> SUFFICES ASSUME ListTypes, ListOK PROVE NextFacts
  OBVIOUS
<1>0. PosFacts
  BY PosLemma
<1>1. \A n \in Linked : NextOf(n) = IF Pos(n) = Len(chain) THEN Nil
                                    ELSE chain[Pos(n) + 1]
  BY DEF NextOf
<1>2. \A n \in Linked : NextOf(n) \in Linked \cup {Nil}
  BY <1>0, <1>1 DEF PosFacts
<1>3. \A n : n \notin Linked => NextOf(n) = stale[n]
  BY DEF NextOf
<1>4. \A n \in Nodes : NextOf(n) \in Nodes \cup {Nil}
  BY <1>0, <1>2, <1>3 DEF ListTypes, PosFacts
<1>5. chain = <<>> <=> Len(chain) = 0
  BY EmptySeq DEF ListTypes
<1>6. First = IF Len(chain) = 0 THEN Nil ELSE chain[1]
  BY <1>5 DEF First
<1>7. First \in Linked \cup {Nil}
  BY <1>0, <1>6 DEF PosFacts
<1> QED BY <1>1, <1>2, <1>3, <1>4, <1>6, <1>7 DEF NextFacts

LEMMA GrantLemma == ListTypes /\ ListOK => GrantFacts
<1> SUFFICES ASSUME ListTypes, ListOK PROVE GrantFacts
  OBVIOUS
<1>0. PosFacts
  BY PosLemma
<1>1. \A m, n \in Linked : uidOf[m] = uidOf[n] => m = n
  BY <1>0 DEF ListOK, PosFacts
<1>2. \A n \in Linked : uidOf[n] \in Uids
  BY <1>0 DEF ListOK, PosFacts
<1>3. ASSUME NEW u, NEW n \in Linked, uidOf[n] = u
      PROVE  GrantFor(u) = grantOf[n]
  <2>1. {m \in Linked : uidOf[m] = u} = {n}
    BY <1>1, <1>3
  <2> QED BY <2>1 DEF GrantFor
<1>4. ASSUME NEW u, \A n \in Linked : uidOf[n] # u
      PROVE  GrantFor(u) = "none"
  <2>1. {m \in Linked : uidOf[m] = u} = {}
    BY <1>4
  <2> QED BY <2>1 DEF GrantFor
<1>5. \A n \in Linked : grantOf[n] \in Grants \cup {"none"}
  BY <1>0 DEF ListTypes, PosFacts
<1>6. \A u : GrantFor(u) \in Grants \cup {"none"}
  <2> TAKE u
  <2>1. CASE \A n \in Linked : uidOf[n] # u
    BY <2>1, <1>4
  <2>2. CASE \E n \in Linked : uidOf[n] = u
    BY <2>2, <1>3, <1>5
  <2> QED BY <2>1, <2>2
<1> QED BY <1>1, <1>2, <1>3, <1>4, <1>6 DEF GrantFacts

ListFacts == PosFacts /\ NextFacts /\ GrantFacts

LEMMA ListLemma == ListTypes /\ ListOK => ListFacts
BY PosLemma, NextLemma, GrantLemma DEF ListFacts

\* What is referenced is in use.
UsedFacts ==
    /\ \A n \in Nodes : Cardinality(Holders(n)) \in Nat
    /\ \A n \in Linked \cap Nodes : mem[n] = "used" /\ ref[n] > 0
    /\ \A n \in Nodes : OwnedByWriter(n) => mem[n] = "used" /\ ref[n] > 0
    /\ \A r \in Readers : rpc[r] = "hold" /\ cur[r] \in Nodes
          => mem[cur[r]] = "used" /\ ref[cur[r]] > 0

LEMMA HoldersFinite ==
  ASSUME NEW n
  PROVE  /\ IsFiniteSet(Holders(n))
         /\ Cardinality(Holders(n)) \in Nat
         /\ \A r \in Holders(n) : Cardinality(Holders(n)) > 0
<1>1. IsFiniteSet(Holders(n))
  BY FS_Subset, AllowlistAssumption DEF AllowlistAssumption, Holders
<1>2. Cardinality(Holders(n)) \in Nat
  BY <1>1, FS_CardinalityType
<1>3. \A r \in Holders(n) : Cardinality(Holders(n)) # 0
  BY <1>1, FS_EmptySet
<1> QED BY <1>1, <1>2, <1>3

LEMMA UsedLemma == TypeOK /\ RefcountsExact => UsedFacts
<1> SUFFICES ASSUME TypeOK, RefcountsExact PROVE UsedFacts
  OBVIOUS
<1>1. \A n \in Nodes : Cardinality(Holders(n)) \in Nat
  BY HoldersFinite
<1>2. \A n \in Linked \cap Nodes : mem[n] = "used" /\ ref[n] > 0
  BY <1>1 DEF RefcountsExact
<1>3. \A n \in Nodes : OwnedByWriter(n) => mem[n] = "used" /\ ref[n] > 0
  BY <1>1 DEF RefcountsExact
<1>4. ASSUME NEW r \in Readers, rpc[r] = "hold", cur[r] \in Nodes
      PROVE  mem[cur[r]] = "used" /\ ref[cur[r]] > 0
  <2>1. r \in Holders(cur[r])
    BY <1>4 DEF Holders
  <2>2. Cardinality(Holders(cur[r])) > 0 /\ Cardinality(Holders(cur[r])) \in Nat
    BY <2>1, HoldersFinite
  <2>3. ref[cur[r]] > 0
    BY <1>4, <2>2 DEF RefcountsExact
  <2> QED BY <1>4, <2>3 DEF RefcountsExact
<1> QED BY <1>1, <1>2, <1>3, <1>4 DEF UsedFacts

-----------------------------------------------------------------------------
(* How the writer changes the list *)

\* Pointers after a change are those before it, but for the ones into old,
\* which lead to new, and the one of new, which leads to rest.
Relinked(old, new, rest) ==
    /\ \A m \in Nodes : NextOf(m)' = IF m = new THEN rest
                                     ELSE IF m \in Linked /\ NextOf(m) = old THEN new
                                     ELSE NextOf(m)
    /\ First' = IF First = old THEN new ELSE First

LEMMA ReplaceShape ==
  ASSUME TypeOK, ListOK, RefcountsExact,
         NEW u \in Uids, NEW g \in Grants, NEW n \in Nodes, Replace(u, g, n)
  PROVE  /\ ListTypes' /\ ListOK'
         /\ victim' \in Linked /\ victim' # n /\ uidOf[victim'] = u
         /\ n \notin Linked
         /\ Linked' = (Linked \ {victim'}) \cup {n}
         /\ Relinked(victim', n, NextOf(victim'))
         /\ stale'[victim'] = NextOf(victim')
<1>1. PICK old \in Linked :
         /\ uidOf[old] = u
         /\ Allocate(n, u, g)
         /\ chain' = [chain EXCEPT ![Pos(old)] = n]
         /\ stale' = [stale EXCEPT ![old] = NextOf(old)]
         /\ victim' = old
  BY DEF Replace
<1>2. PosFacts /\ NextFacts /\ UsedFacts
  BY ListLemma, UsedLemma DEF ListFacts, ListTypes, TypeOK
<1>3. n \notin Linked /\ n # old /\ old \in Nodes
  BY <1>1, <1>2 DEF Allocate, UsedFacts, PosFacts
<1>4. /\ chain' \in Seq(Nodes) /\ Len(chain') = Len(chain)
      /\ \A i \in 1..Len(chain) : chain'[i] = IF i = Pos(old) THEN n ELSE chain[i]
  BY <1>1, <1>2, ExceptSeq DEF TypeOK, PosFacts
<1>5. ListTypes'
  <2>1. NextOf(old) \in Nodes \cup {Nil}
    BY <1>2, <1>3 DEF NextFacts
  <2> QED BY <1>1, <1>3, <1>4, <2>1 DEF TypeOK, ListTypes, Allocate
<1>6. \A i \in 1..Len(chain) : uidOf'[chain'[i]] = uidOf[chain[i]]
  BY <1>1, <1>2, <1>3, <1>4 DEF Allocate, PosFacts, TypeOK
<1>7. ListOK'
  BY <1>4, <1>6 DEF ListOK, Replace
<1>8. Linked' = (Linked \ {old}) \cup {n}
  <2>1. \A m : m \in Linked' <=> \E i \in 1..Len(chain) : m = chain'[i]
    BY <1>4 DEF Linked
  <2>2. \A m : m \in Linked' => m \in (Linked \ {old}) \cup {n}
    BY <2>1, <1>2, <1>4 DEF PosFacts
  <2>3. \A m \in Linked \ {old} : m \in Linked'
    BY <2>1, <1>2, <1>4 DEF PosFacts
  <2>4. n \in Linked'
    BY <2>1, <1>1, <1>2, <1>4 DEF PosFacts
  <2> QED BY <2>2, <2>3, <2>4
<1>9. NextFacts' /\ PosFacts'
  <2>1. (ListTypes /\ ListOK => ListFacts)'
    BY ListLemma, PTL
  <2> QED BY <2>1, <1>5, <1>7 DEF ListFacts
<1>10. /\ Pos(n)' = Pos(old)
       /\ \A m \in Linked \ {old} : Pos(m)' = Pos(m)
  BY <1>1, <1>2, <1>3, <1>4, <1>8, <1>9 DEF PosFacts
<1>11. NextOf(n)' = NextOf(old)
  BY <1>1, <1>2, <1>4, <1>8, <1>9, <1>10 DEF PosFacts, NextFacts
<1>12. NextOf(old)' = NextOf(old) /\ NextOf(old) # old
  <2>1. NextOf(old)' = NextOf(old)
    BY <1>1, <1>3, <1>8, <1>9 DEF NextFacts, TypeOK
  <2>2. NextOf(old) # old
    BY <1>2, <1>3, AllowlistAssumption DEF PosFacts, NextFacts, AllowlistAssumption
  <2> QED BY <2>1, <2>2
<1>13. ASSUME NEW m \in Linked \ {old}
       PROVE  NextOf(m)' = IF NextOf(m) = old THEN n ELSE NextOf(m)
  <2>1. m \in Linked' /\ Pos(m)' = Pos(m) /\ Len(chain)' = Len(chain)
    BY <1>4, <1>8, <1>10, <1>13
  <2>2. NextOf(m)' = IF Pos(m) = Len(chain) THEN Nil ELSE chain'[Pos(m) + 1]
    BY <2>1, <1>9 DEF NextFacts
  <2>3. CASE Pos(m) = Len(chain)
    BY <2>2, <2>3, <1>2, <1>3, <1>13, AllowlistAssumption DEF NextFacts, AllowlistAssumption
  <2>4. CASE Pos(m) # Len(chain)
    <3>1. Pos(m) + 1 \in 1..Len(chain) /\ NextOf(m) = chain[Pos(m) + 1]
      BY <2>4, <1>2, <1>13 DEF NextFacts, PosFacts
    <3>2. NextOf(m) = old <=> Pos(m) + 1 = Pos(old)
      BY <3>1, <1>2 DEF PosFacts
    <3> QED BY <2>2, <2>4, <3>1, <3>2, <1>4
  <2> QED BY <2>3, <2>4
<1>14. ASSUME NEW m \in Nodes \ (Linked \cup {n})
       PROVE  NextOf(m)' = NextOf(m)
  BY <1>1, <1>2, <1>8, <1>9 DEF NextFacts, TypeOK
<1>15. First' = IF First = old THEN n ELSE First
  BY <1>1, <1>2, <1>4, <1>9 DEF PosFacts, NextFacts
<1>16. Relinked(old, n, NextOf(old))
  BY <1>3, <1>11, <1>12, <1>13, <1>14, <1>15 DEF Relinked
<1> QED BY <1>1, <1>3, <1>5, <1>7, <1>8, <1>12, <1>16 DEF TypeOK

LEMMA AddShape ==
  ASSUME TypeOK, ListOK, RefcountsExact,
         NEW u \in Uids, NEW g \in Grants, NEW n \in Nodes, Add(u, g, n),
         wpc # "prune_put"
  PROVE  /\ ListTypes' /\ ListOK'
         /\ n \notin Linked
         /\ Linked' = Linked \cup {n}
         /\ \A m \in Nodes : NextOf(m)' = IF m = n THEN First ELSE NextOf(m)
         /\ First' = n
<1>1. PosFacts /\ NextFacts /\ UsedFacts
  BY ListLemma, UsedLemma DEF ListFacts, ListTypes, TypeOK
<1>2. n \notin Linked
  BY <1>1 DEF Add, Allocate, UsedFacts
<1>3. /\ <<n>> \in Seq(Nodes) /\ Len(<<n>>) = 1 /\ <<n>>[1] = n
      /\ chain' = <<n>> \o chain
  BY DEF Add
<1>4. /\ chain' \in Seq(Nodes) /\ Len(chain') = Len(chain) + 1
      /\ chain'[1] = n
      /\ \A i \in 1..Len(chain) : chain'[i + 1] = chain[i]
  BY <1>1, <1>3, ConcatProperties DEF TypeOK, PosFacts
<1>5. ListTypes'
  BY <1>4 DEF Add, Allocate, TypeOK, ListTypes
<1>6. /\ uidOf'[chain'[1]] = u
      /\ \A i \in 1..Len(chain) : uidOf'[chain'[i + 1]] = uidOf[chain[i]] /\ uidOf[chain[i]] # u
  BY <1>1, <1>2, <1>4 DEF Add, Allocate, PosFacts, TypeOK
<1>7. ListOK'
  <2>1. \A i \in 1..Len(chain)' : i = 1 \/ (i - 1 \in 1..Len(chain) /\ i = (i - 1) + 1)
    BY <1>1, <1>4 DEF PosFacts
  <2>2. \A i \in 1..Len(chain)' : uidOf'[chain'[i]] = IF i = 1 THEN u ELSE uidOf[chain[i - 1]]
    BY <2>1, <1>6
  <2>3. \A i \in 1..Len(chain)' : uidOf'[chain'[i]] \in Uids
    BY <2>1, <2>2 DEF ListOK
  <2>4. ASSUME NEW i \in 1..Len(chain)', NEW j \in 1..Len(chain)',
               uidOf'[chain'[i]] = uidOf'[chain'[j]]
        PROVE  i = j
    <3>1. CASE i = 1 \/ j = 1
      BY <3>1, <2>1, <2>2, <2>4, <1>6
    <3>2. CASE i # 1 /\ j # 1
      <4>1. i - 1 \in 1..Len(chain) /\ j - 1 \in 1..Len(chain)
        BY <2>1, <3>2
      <4>2. i - 1 = j - 1
        BY <4>1, <2>2, <2>4, <3>2 DEF ListOK
      <4> QED BY <4>2, <1>4, <1>1 DEF PosFacts
    <3> QED BY <3>1, <3>2
  <2>5. (allow_list_count = Len(chain) + (IF wpc = "prune_put" THEN 1 ELSE 0))'
    BY <1>1, <1>4 DEF ListOK, Add, writerVars, PosFacts
  <2>6. allow_list_count' <= MaxCount
    BY <1>1, AllowlistAssumption DEF ListOK, Add, PosFacts, AllowlistAssumption
  <2> QED BY <2>3, <2>4, <2>5, <2>6 DEF ListOK
<1>8. Linked' = Linked \cup {n}
  <2>1. \A m : m \in Linked' <=> \E i \in 1..Len(chain)' : m = chain'[i]
    BY DEF Linked
  <2>2. \A m : m \in Linked' => m = n \/ m \in Linked
    <3> SUFFICES ASSUME NEW i \in 1..Len(chain)' PROVE chain'[i] = n \/ chain'[i] \in Linked
      BY <2>1
    <3>1. i = 1 \/ (i - 1 \in 1..Len(chain) /\ i = (i - 1) + 1)
      BY <1>1, <1>4 DEF PosFacts
    <3> QED BY <3>1, <1>1, <1>4 DEF PosFacts
  <2>3. \A i \in 1..Len(chain) : i + 1 \in 1..Len(chain)'
    BY <1>1, <1>4 DEF PosFacts
  <2>4. \A m \in Linked : m \in Linked'
    BY <2>1, <2>3, <1>1, <1>4 DEF PosFacts
  <2>5. n \in Linked'
    BY <2>1, <1>1, <1>4 DEF PosFacts
  <2> QED BY <2>2, <2>4, <2>5
<1>9. NextFacts' /\ PosFacts'
  <2>1. (ListTypes /\ ListOK => ListFacts)'
    BY ListLemma, PTL
  <2> QED BY <2>1, <1>5, <1>7 DEF ListFacts
<1>10. Pos(n)' = 1
  BY <1>1, <1>4, <1>9 DEF PosFacts
<1>11. \A m \in Linked : Pos(m)' = Pos(m) + 1
  <2> TAKE m \in Linked
  <2>1. Pos(m) \in 1..Len(chain) /\ chain[Pos(m)] = m
    BY <1>1 DEF PosFacts
  <2>2. Pos(m) + 1 \in 1..Len(chain)' /\ chain'[Pos(m) + 1] = m
    BY <2>1, <1>1, <1>4 DEF PosFacts
  <2> QED BY <2>2, <1>9 DEF PosFacts
<1>12. NextOf(n)' = First
  <2>1. NextOf(n)' = IF Len(chain)' = 1 THEN Nil ELSE chain'[2]
    <3>1. NextOf(n)' = IF Pos(n)' = Len(chain)' THEN Nil ELSE chain'[Pos(n)' + 1]
      BY <1>8, <1>9 DEF NextFacts
    <3> QED BY <3>1, <1>4, <1>10
  <2>2. CASE Len(chain) = 0
    BY <2>1, <2>2, <1>1, <1>4 DEF NextFacts
  <2>3. CASE Len(chain) # 0
    <3>1. 1 \in 1..Len(chain) /\ Len(chain)' # 1
      BY <2>3, <1>1, <1>4 DEF PosFacts
    <3>2. chain'[2] = chain[1]
      BY <3>1, <1>4
    <3> QED BY <3>1, <3>2, <2>1, <2>3, <1>1 DEF NextFacts
  <2> QED BY <2>2, <2>3
<1>13. \A m \in Linked : NextOf(m)' = NextOf(m)
  <2> TAKE m \in Linked
  <2>1. Pos(m) \in 1..Len(chain) /\ Pos(m)' = Pos(m) + 1 /\ m \in Linked'
    BY <1>1, <1>8, <1>11 DEF PosFacts
  <2>2. NextOf(m)' = IF Pos(m) = Len(chain) THEN Nil ELSE chain'[Pos(m) + 2]
    BY <2>1, <1>1, <1>4, <1>9 DEF NextFacts, PosFacts
  <2>3. Pos(m) # Len(chain) => Pos(m) + 1 \in 1..Len(chain) /\ Pos(m) + 2 = (Pos(m) + 1) + 1
    BY <2>1, <1>1 DEF PosFacts
  <2>4. Pos(m) # Len(chain) => chain'[Pos(m) + 2] = chain[Pos(m) + 1]
    BY <2>3, <1>4
  <2> QED BY <2>2, <2>4, <1>1 DEF NextFacts
<1>14. \A m \in Nodes \ (Linked \cup {n}) : NextOf(m)' = NextOf(m)
  BY <1>1, <1>8, <1>9 DEF NextFacts, Add
<1>15. First' = n
  BY <1>1, <1>4, <1>9 DEF NextFacts, PosFacts
<1> QED BY <1>2, <1>5, <1>7, <1>8, <1>12, <1>13, <1>14, <1>15

\* Pointers into old lead past it.
Bypassed(old) ==
    /\ \A m \in Nodes : NextOf(m)' = IF m \in Linked /\ NextOf(m) = old THEN NextOf(old)
                                     ELSE NextOf(m)
    /\ First' = IF First = old THEN NextOf(old) ELSE First

LEMMA DeleteShape ==
  ASSUME TypeOK, ListOK, WriterOK, PruneDelete
  PROVE  /\ ListTypes' /\ ListOK'
         /\ victim \in Linked /\ victim' = victim
         /\ Linked' = Linked \ {victim}
         /\ Bypassed(victim)
         /\ stale'[victim] = NextOf(victim)
         /\ stale'[victim] \in Linked' \cup {Nil}
<1>1. PosFacts /\ NextFacts
  BY ListLemma DEF ListFacts, ListTypes, TypeOK
<1>0. PICK v \in Linked : v = victim
  BY DEF PruneDelete, WriterOK
<1> DEFINE p == Pos(v)
           a == SubSeq(chain, 1, p - 1)
           b == SubSeq(chain, p + 1, Len(chain))
<1>2. v \in Linked /\ v \in Nodes /\ victim' = v /\ chain' = a \o b
  BY <1>0, <1>1 DEF PruneDelete, PosFacts
<1>3. p \in 1..Len(chain) /\ chain[p] = v /\ Len(chain) \in Nat
  BY <1>1, <1>2 DEF PosFacts
<1>4. /\ a \in Seq(Nodes) /\ Len(a) = p - 1
      /\ \A i \in 1..(p - 1) : a[i] = chain[i]
  <2>1. \A i \in 1..(p - 1) : chain[i] \in Nodes
    BY <1>1, <1>3 DEF PosFacts
  <2> HIDE DEF p
  <2> QED BY <1>3, <2>1, SubSeqProperties DEF a
<1>5. /\ b \in Seq(Nodes) /\ Len(b) = Len(chain) - p
      /\ \A i \in 1..(Len(chain) - p) : b[i] = chain[p + i]
  <2>1. \A i \in (p + 1)..Len(chain) : chain[i] \in Nodes
    BY <1>1, <1>3 DEF PosFacts
  <2> HIDE DEF p
  <2>2. /\ b \in Seq(Nodes)
        /\ Len(b) = IF p + 1 <= Len(chain) THEN Len(chain) - (p + 1) + 1 ELSE 0
        /\ \A i \in 1..(Len(chain) - (p + 1) + 1) : b[i] = chain[(p + 1) + i - 1]
    BY <1>3, <2>1, SubSeqProperties DEF b
  <2> QED BY <2>2, <1>3
<1> HIDE DEF a, b, p
<1>6. /\ chain' \in Seq(Nodes) /\ Len(chain') = Len(chain) - 1
      /\ \A i \in 1..(Len(chain) - 1) : chain'[i] = IF i < p THEN chain[i] ELSE chain[i + 1]
  <2>1. /\ a \o b \in Seq(Nodes) /\ Len(a \o b) = Len(a) + Len(b)
        /\ \A i \in 1..(Len(a) + Len(b)) : (a \o b)[i] = IF i <= Len(a) THEN a[i] ELSE b[i - Len(a)]
    BY <1>4, <1>5, ConcatProperties
  <2>2. Len(a) + Len(b) = Len(chain) - 1
    BY <1>3, <1>4, <1>5
  <2>3. ASSUME NEW i \in 1..(Len(chain) - 1)
        PROVE  chain'[i] = IF i < p THEN chain[i] ELSE chain[i + 1]
    <3>1. CASE i < p
      BY <3>1, <2>1, <2>2, <1>2, <1>3, <1>4
    <3>2. CASE ~(i < p)
      <4>1. i - (p - 1) \in 1..(Len(chain) - p) /\ p + (i - (p - 1)) = i + 1
        BY <3>2, <1>3
      <4>2. b[i - (p - 1)] = chain[i + 1]
        BY <4>1, <1>5
      <4> QED BY <4>2, <3>2, <2>1, <2>2, <1>2, <1>3, <1>4
    <3> QED BY <3>1, <3>2
  <2> QED BY <2>1, <2>2, <2>3, <1>2
<1>7. ListTypes'
  BY <1>0, <1>1, <1>2, <1>6 DEF PruneDelete, TypeOK, ListTypes, NextFacts
<1> DEFINE Old == [i \in 1..Len(chain)' |-> IF i < p THEN i ELSE i + 1]
<1>8. /\ \A i \in 1..Len(chain)' : Old[i] \in 1..Len(chain) /\ Old[i] # p /\ chain'[i] = chain[Old[i]]
      /\ \A i, j \in 1..Len(chain)' : Old[i] = Old[j] => i = j
      /\ \A k \in 1..Len(chain) : k # p => \E i \in 1..Len(chain)' : Old[i] = k
  <2>1. \A i \in 1..Len(chain)' : Old[i] \in 1..Len(chain) /\ Old[i] # p /\ chain'[i] = chain[Old[i]]
    BY <1>3, <1>6
  <2>2. \A i, j \in 1..Len(chain)' : Old[i] = Old[j] => i = j
    BY <1>3, <1>6
  <2>3. ASSUME NEW k \in 1..Len(chain), k # p
        PROVE  \E i \in 1..Len(chain)' : Old[i] = k
    <3>1. CASE k < p
      BY <3>1, <1>3, <1>6
    <3>2. CASE k > p
      <4>1. k - 1 \in 1..Len(chain)' /\ Old[k - 1] = k
        BY <3>2, <1>3, <1>6
      <4> QED BY <4>1
    <3> QED BY <3>1, <3>2, <2>3, <1>3
  <2> QED BY <2>1, <2>2, <2>3
<1>9. ListOK'
  <2>1. \A i \in 1..Len(chain)' : uidOf'[chain'[i]] = uidOf[chain[Old[i]]]
    BY <1>8 DEF PruneDelete
  <2> HIDE DEF Old
  <2>2. \A i \in 1..Len(chain)' : uidOf'[chain'[i]] \in Uids
    BY <2>1, <1>8 DEF ListOK
  <2>3. \A i, j \in 1..Len(chain)' : uidOf'[chain'[i]] = uidOf'[chain'[j]] => i = j
    <3> SUFFICES ASSUME NEW i \in 1..Len(chain)', NEW j \in 1..Len(chain)',
                        uidOf'[chain'[i]] = uidOf'[chain'[j]]
                 PROVE  i = j
      OBVIOUS
    <3>1. Old[i] \in 1..Len(chain) /\ Old[j] \in 1..Len(chain)
      BY <1>8
    <3>2. uidOf[chain[Old[i]]] = uidOf[chain[Old[j]]]
      BY <2>1
    <3>3. Old[i] = Old[j]
      BY <3>1, <3>2 DEF ListOK
    <3> QED BY <3>3, <1>8
  <2>4. allow_list_count' = allow_list_count /\ wpc = "prune" /\ wpc' = "prune_put"
    BY DEF PruneDelete
  <2> QED BY <2>2, <2>3, <2>4, <1>3, <1>6 DEF ListOK
<1>10. Linked' = Linked \ {v}
  <2> HIDE DEF Old
  <2>1. \A m : m \in Linked' <=> \E i \in 1..Len(chain)' : m = chain'[i]
    BY DEF Linked
  <2>2. \A m \in Linked' : m \in Linked /\ m # v
    BY <2>1, <1>1, <1>3, <1>8 DEF PosFacts, p
  <2>3. ASSUME NEW m \in Linked \ {v}
        PROVE  m \in Linked'
    <3>1. Pos(m) \in 1..Len(chain) /\ Pos(m) # p /\ chain[Pos(m)] = m
      BY <1>1, <1>3 DEF PosFacts
    <3>2. PICK i \in 1..Len(chain)' : Old[i] = Pos(m)
      BY <3>1, <1>8
    <3> QED BY <3>1, <3>2, <2>1, <1>8
  <2> QED BY <2>2, <2>3
<1>11. NextFacts' /\ PosFacts'
  <2>1. (ListTypes /\ ListOK => ListFacts)'
    BY ListLemma, PTL
  <2> QED BY <2>1, <1>7, <1>9 DEF ListFacts
<1>12. ASSUME NEW m \in Linked \ {v}
       PROVE  /\ m \in Linked' /\ Pos(m) \in 1..Len(chain) /\ Pos(m) # p
              /\ Pos(m)' = IF Pos(m) < p THEN Pos(m) ELSE Pos(m) - 1
  <2>1. m \in Linked' /\ Pos(m) \in 1..Len(chain) /\ Pos(m) # p /\ chain[Pos(m)] = m
    BY <1>1, <1>3, <1>10 DEF PosFacts
  <2>2. CASE Pos(m) < p
    <3>1. Pos(m) \in 1..Len(chain)' /\ chain'[Pos(m)] = m
      BY <2>1, <2>2, <1>3, <1>6
    <3> QED BY <3>1, <2>1, <2>2, <1>11 DEF PosFacts
  <2>3. CASE Pos(m) > p
    <3>1. Pos(m) - 1 \in 1..Len(chain)' /\ chain'[Pos(m) - 1] = m
      BY <2>1, <2>3, <1>3, <1>6
    <3> QED BY <3>1, <2>1, <2>3, <1>3, <1>11 DEF PosFacts
  <2> QED BY <2>1, <2>2, <2>3, <1>3
<1>13. NextOf(v) = IF p = Len(chain) THEN Nil ELSE chain[p + 1]
  BY <1>1, <1>2 DEF NextFacts, p
<1>14. ASSUME NEW m \in Linked \ {v}
       PROVE  NextOf(m)' = IF NextOf(m) = v THEN NextOf(v) ELSE NextOf(m)
  <2>1. NextOf(m)' = IF Pos(m)' = Len(chain) - 1 THEN Nil ELSE chain'[Pos(m)' + 1]
    BY <1>6, <1>11, <1>12 DEF NextFacts
  <2>2. NextOf(m) = IF Pos(m) = Len(chain) THEN Nil ELSE chain[Pos(m) + 1]
    BY <1>1 DEF NextFacts
  <2>3. v # Nil
    BY <1>2, AllowlistAssumption DEF AllowlistAssumption
  <2>4. CASE Pos(m) > p
    <3>1. Pos(m)' = Pos(m) - 1
      BY <2>4, <1>3, <1>12
    <3>2. CASE Pos(m) = Len(chain)
      BY <3>1, <3>2, <2>1, <2>2, <2>3
    <3>3. CASE Pos(m) # Len(chain)
      <4>1. Pos(m) \in 1..(Len(chain) - 1) /\ Pos(m) + 1 \in 1..Len(chain) /\ Pos(m) + 1 # p
        BY <3>3, <2>4, <1>3, <1>12
      <4>2. chain'[Pos(m)] = chain[Pos(m) + 1]
        BY <4>1, <2>4, <1>3, <1>6
      <4>3. chain[Pos(m) + 1] # v
        BY <4>1, <1>1 DEF PosFacts, p
      <4>4. Pos(m)' # Len(chain) - 1 /\ Pos(m)' + 1 = Pos(m)
        BY <3>1, <3>3, <1>3, <1>12
      <4> QED BY <4>2, <4>3, <4>4, <3>3, <2>1, <2>2
    <3> QED BY <3>2, <3>3
  <2>5. CASE Pos(m) + 1 = p
    <3>1. NextOf(m) = v /\ Pos(m)' = p - 1
      BY <2>5, <2>2, <1>3, <1>12
    <3>2. CASE p = Len(chain)
      BY <3>1, <3>2, <2>1, <1>13
    <3>3. CASE p # Len(chain)
      <4>1. p \in 1..(Len(chain) - 1) /\ Pos(m)' # Len(chain) - 1 /\ Pos(m)' + 1 = p
        BY <3>1, <3>3, <1>3
      <4>2. chain'[p] = chain[p + 1]
        BY <4>1, <1>3, <1>6
      <4> QED BY <4>1, <4>2, <3>1, <3>3, <2>1, <1>13
    <3> QED BY <3>2, <3>3
  <2>6. CASE Pos(m) + 1 < p
    <3>1. /\ Pos(m)' = Pos(m) /\ Pos(m) + 1 \in 1..(Len(chain) - 1)
          /\ Pos(m) # Len(chain) /\ Pos(m) # Len(chain) - 1 /\ Pos(m) + 1 \in 1..Len(chain)
      BY <2>6, <1>3, <1>12
    <3>2. chain'[Pos(m) + 1] = chain[Pos(m) + 1]
      BY <3>1, <2>6, <1>3, <1>6
    <3>3. chain[Pos(m) + 1] # v
      BY <3>1, <2>6, <1>1, <1>3 DEF PosFacts, p
    <3> QED BY <3>1, <3>2, <3>3, <2>1, <2>2
  <2> QED BY <2>4, <2>5, <2>6, <1>3, <1>12
<1>15. stale'[v] = NextOf(v) /\ NextOf(v) # v
  <2>1. stale'[v] = NextOf(v)
    BY <1>0, <1>2 DEF PruneDelete, TypeOK
  <2>2. p # Len(chain) => p + 1 \in 1..Len(chain)
    BY <1>3
  <2>3. NextOf(v) # v
    BY <2>2, <1>1, <1>2, <1>3, <1>13, AllowlistAssumption DEF AllowlistAssumption, PosFacts, p
  <2> QED BY <2>1, <2>3
<1>16. NextOf(v)' = NextOf(v)
  BY <1>10, <1>11, <1>15, <1>2 DEF NextFacts
<1>17. \A m \in Nodes \ Linked : NextOf(m)' = NextOf(m)
  BY <1>0, <1>1, <1>2, <1>10, <1>11 DEF NextFacts, PruneDelete, TypeOK
<1>18. First' = IF First = v THEN NextOf(v) ELSE First
  <2>1. First = chain[1] /\ (First = v <=> p = 1)
    BY <1>1, <1>3 DEF NextFacts, PosFacts, p
  <2>2. First' = IF Len(chain) = 1 THEN Nil ELSE chain'[1]
    BY <1>3, <1>6, <1>11 DEF NextFacts
  <2>3. CASE Len(chain) = 1
    BY <2>1, <2>2, <2>3, <1>3, <1>13
  <2>4. CASE Len(chain) # 1
    <3>1. chain'[1] = IF 1 < p THEN chain[1] ELSE chain[2]
      BY <2>4, <1>3, <1>6
    <3>2. CASE p = 1
      <4>1. NextOf(v) = chain[2] /\ First = v
        BY <3>2, <2>1, <2>4, <1>13
      <4> QED BY <4>1, <3>1, <3>2, <2>2, <2>4
    <3>3. CASE p # 1
      <4>1. First # v /\ 1 < p
        BY <3>3, <2>1, <1>3
      <4> QED BY <4>1, <3>1, <2>1, <2>2, <2>4
    <3> QED BY <3>2, <3>3
  <2> QED BY <2>3, <2>4
<1>19. Bypassed(v)
  <2>1. ASSUME NEW m \in Nodes
        PROVE  NextOf(m)' = IF m \in Linked /\ NextOf(m) = v THEN NextOf(v) ELSE NextOf(m)
    BY <1>14, <1>15, <1>16, <1>17
  <2> QED BY <2>1, <1>18 DEF Bypassed
<1>20. stale'[v] \in Linked' \cup {Nil}
  BY <1>1, <1>2, <1>10, <1>15 DEF NextFacts
<1> QED BY <1>0, <1>2, <1>7, <1>9, <1>10, <1>15, <1>19, <1>20

-----------------------------------------------------------------------------
(* What all lookups see of a step *)

LEMMA ObserveLemma ==
  ASSUME Observe, UNCHANGED uid, NEW r \in Readers, NEW u, u = uid[r]
  PROVE  /\ r \in InSection => seen'[r] = seen[r] \cup {GrantFor(u)'}
         /\ r \notin InSection => seen'[r] = seen[r]
<1>1. GrantFor(uid[r])' = GrantFor(u)'
  BY DEF GrantFor
<1> QED BY <1>1 DEF Observe

LEMMA ObserveType ==
  ASSUME Observe, UNCHANGED uid, ListTypes', ListOK',
         seen \in [Readers -> SUBSET (Grants \cup {"none"})]
  PROVE  seen' \in [Readers -> SUBSET (Grants \cup {"none"})]
<1>1. (ListTypes /\ ListOK => ListFacts)'
  BY ListLemma, PTL
<1>2. \A u : GrantFor(u)' \in Grants \cup {"none"}
  BY <1>1 DEF ListFacts, GrantFacts
<1>3. ASSUME NEW r \in Readers
      PROVE  seen'[r] \in SUBSET (Grants \cup {"none"})
  <2>1. PICK u : u = uid[r]
    OBVIOUS
  <2> QED BY <2>1, <1>2, ObserveLemma
<1> QED BY <1>3 DEF Observe

\* The list is as it was, and so is all that is read from it.
SameList ==
    /\ Linked' = Linked
    /\ First' = First
    /\ \A m : NextOf(m)' = NextOf(m)
    /\ \A u : GrantFor(u)' = GrantFor(u)

LEMMA SameListLemma ==
  ASSUME UNCHANGED <<chain, stale, uidOf, grantOf>>
  PROVE  SameList
<1>1. Linked' = Linked
  BY DEF Linked
<1>2. \A m : Pos(m)' = Pos(m)
  BY DEF Pos
<1>3. \A m : NextOf(m)' = NextOf(m)
  BY <1>1, <1>2 DEF NextOf
<1>4. First' = First
  BY DEF First
<1>5. \A u : GrantFor(u)' = GrantFor(u)
  BY <1>1 DEF GrantFor
<1> QED BY <1>1, <1>3, <1>4, <1>5 DEF SameList

LEMMA SameHolders ==
  ASSUME \A s \in Readers, n \in Nodes :
            (rpc'[s] = "hold" /\ cur'[s] = n) <=> (rpc[s] = "hold" /\ cur[s] = n)
  PROVE  \A n \in Nodes : Holders(n)' = Holders(n)
BY DEF Holders

\* A step that moves no reference of any kind.
LEMMA SameReferences ==
  ASSUME RefcountsExact, UNCHANGED <<ref, mem>>,
         \A n \in Nodes : Holders(n)' = Holders(n),
         \A n \in Nodes : (n \in Linked \/ OwnedByWriter(n))' <=> (n \in Linked \/ OwnedByWriter(n))
  PROVE  RefcountsExact'
BY DEF RefcountsExact

-----------------------------------------------------------------------------
(* The readers' steps *)

\* What a reader's step leaves to the others.
OthersSame(r) ==
    /\ UNCHANGED <<listVars, writerVars>>
    /\ \A n \in Nodes : mem'[n] = "free" <=> mem[n] = "free"
    /\ \A s \in Readers \ {r} :
          /\ rpc'[s] = rpc[s] /\ op'[s] = op[s] /\ uid'[s] = uid[s]
          /\ cur'[s] = cur[s] /\ res'[s] = res[s] /\ seen'[s] = seen[s]
          /\ s \in InSection => \A n \in Nodes : Guarded(s, n) => Guarded(s, n)'

\* A lookup stays in good order while nothing that it reads changes.
LEMMA SectionKept ==
  ASSUME NEW s \in Readers, SectionOK(s), SameList, UNCHANGED <<uidOf, grantOf>>,
         rpc'[s] = rpc[s], op'[s] = op[s], uid'[s] = uid[s],
         cur'[s] = cur[s], seen'[s] = seen[s],
         \A n \in Nodes : Guarded(s, n) => Guarded(s, n)'
  PROVE  SectionOK(s)'
<1>1. PICK u : u = uid[s]
  OBVIOUS
<1>2. GrantFor(uid[s])' = GrantFor(u)' /\ GrantFor(u) = GrantFor(uid[s])
  BY <1>1 DEF GrantFor
<1>3. GrantFor(uid[s])' \in seen'[s]
  BY <1>1, <1>2 DEF SameList, SectionOK
<1>4. PICK S \in SUBSET Nodes :
         /\ Reaches(s, S)
         /\ rpc[s] = "walk" => Absent(s) \/ \E G \in SUBSET S : Leads(s, G)
  BY DEF SectionOK
<1>5. Reaches(s, S)'
  BY <1>4 DEF Reaches, SameList
<1>6. Absent(s) => Absent(s)'
  BY DEF Absent
<1>7. \A G \in SUBSET S : Leads(s, G) => Leads(s, G)'
  BY DEF Leads, SameList
<1> QED BY <1>3, <1>4, <1>5, <1>6, <1>7 DEF SectionOK

LEMMA ReaderFrame ==
  ASSUME RcuInv, NEW r \in Readers, OthersSame(r),
         TypeOK', RefcountsExact',
         r \in InSection' => SectionOK(r)', GetOK(r)', AnswerOK(r)'
  PROVE  RcuInv'
<1>1. SameList
  BY SameListLemma DEF OthersSame, listVars
<1>2. ListOK' /\ WriterOK' /\ FilledIn'
  BY <1>1 DEF RcuInv, ListOK, WriterOK, FilledIn, OthersSame, listVars, writerVars, SameList
<1>3. ASSUME NEW s \in Readers \ {r}
      PROVE  (s \in InSection' => SectionOK(s)') /\ GetOK(s)' /\ AnswerOK(s)'
  <2>1. s \in InSection' => SectionOK(s)'
    <3> SUFFICES ASSUME s \in InSection' PROVE SectionOK(s)'
      OBVIOUS
    <3>1. s \in InSection /\ SectionOK(s)
      BY DEF InSection, RcuInv, SectionInv, OthersSame
    <3> QED BY <3>1, <1>1, SectionKept DEF OthersSame, listVars
  <2>2. GetOK(s)'
    BY DEF RcuInv, GetInv, GetOK, OthersSame, listVars
  <2>3. AnswerOK(s)'
    BY DEF RcuInv, LookupSeesSomeState, AnswerOK, RightAnswer, OthersSame
  <2> QED BY <2>1, <2>2, <2>3
<1>4. SectionInv'
  <2> SUFFICES ASSUME NEW s \in InSection' PROVE SectionOK(s)'
    BY DEF SectionInv
  <2>1. s \in Readers
    BY DEF InSection
  <2> QED BY <2>1, <1>3
<1>5. GetInv' /\ LookupSeesSomeState'
  BY <1>3 DEF GetInv, LookupSeesSomeState, AnswerOK
<1> QED BY <1>2, <1>4, <1>5 DEF RcuInv

\* From the head of the list every way leads to the node of u, if there is one.
LEMMA HeadLeads ==
  ASSUME ListFacts, NEW u, NEW k \in Linked, uidOf[k] = u
  PROVE  \E G \in SUBSET Linked :
            First \in G /\ \A n \in G : uidOf[n] = u \/ NextOf(n) \in G
<1> DEFINE G == {chain[i] : i \in 1..Pos(k)}
<1>1. Pos(k) \in 1..Len(chain) /\ chain[Pos(k)] = k /\ Len(chain) \in Nat
  BY DEF ListFacts, PosFacts
<1>2. \A i \in 1..Pos(k) : i \in 1..Len(chain)
  BY <1>1
<1>3. G \in SUBSET Linked
  BY <1>2 DEF ListFacts, PosFacts
<1>4. First \in G
  <2>1. 1 \in 1..Pos(k) /\ Len(chain) # 0
    BY <1>1
  <2>2. First = chain[1]
    BY <2>1 DEF ListFacts, NextFacts
  <2> QED BY <2>1, <2>2
<1>5. ASSUME NEW n \in G, uidOf[n] # u
      PROVE  NextOf(n) \in G
  <2>1. PICK i \in 1..Pos(k) : n = chain[i]
    OBVIOUS
  <2>2. n \in Linked /\ Pos(n) = i
    BY <2>1, <1>2 DEF ListFacts, PosFacts
  <2>3. i # Pos(k)
    BY <2>1, <1>1, <1>5
  <2>4. i + 1 \in 1..Pos(k) /\ i # Len(chain)
    BY <2>3, <1>1
  <2>5. NextOf(n) = chain[i + 1]
    BY <2>2, <2>4 DEF ListFacts, NextFacts
  <2> QED BY <2>4, <2>5
<1> QED BY <1>3, <1>4, <1>5

LEMMA StartStep ==
  ASSUME RcuInv, NEW r \in Readers, NEW o \in Ops, NEW u \in Uids, LookupStart(r, o, u)
  PROVE  RcuInv'
<1>1. ListFacts /\ UsedFacts
  BY ListLemma, UsedLemma DEF RcuInv, TypeOK, ListTypes
<1>2. SameList
  BY SameListLemma DEF LookupStart, ReaderOnly, listVars
<1>3. OthersSame(r)
  BY DEF RcuInv, TypeOK, LookupStart, ReaderOnly, OthersSame, memVars, Guarded, listVars
<1>4. First \in Nodes \cup {Nil} /\ GrantFor(u) \in Grants \cup {"none"}
  BY <1>1 DEF ListFacts, PosFacts, NextFacts, GrantFacts
<1>5. TypeOK'
  BY <1>4 DEF RcuInv, TypeOK, LookupStart, ReaderOnly, listVars, memVars, writerVars
<1>6. RefcountsExact'
  <2>1. \A n \in Nodes : Holders(n)' = Holders(n)
    <3>1. \A s \in Readers, n \in Nodes :
            (rpc'[s] = "hold" /\ cur'[s] = n) <=> (rpc[s] = "hold" /\ cur[s] = n)
      BY DEF RcuInv, TypeOK, LookupStart
    <3> QED BY <3>1, SameHolders
  <2> QED BY <2>1, <1>2, SameReferences
          DEF RcuInv, LookupStart, ReaderOnly, memVars, writerVars, SameList, OwnedByWriter
<1>7. /\ rpc'[r] = "walk" /\ op'[r] = o /\ uid'[r] = u /\ cur'[r] = First
      /\ seen'[r] = {GrantFor(u)} /\ UNCHANGED <<mem, uidOf, grantOf, grace>>
  BY DEF RcuInv, TypeOK, LookupStart, ReaderOnly, memVars, listVars
<1>8. SectionOK(r)'
  <2>1. GrantFor(uid[r])' = GrantFor(u)'
    BY <1>7 DEF GrantFor
  <2>2. GrantFor(uid[r])' \in seen'[r]
    BY <2>1, <1>2, <1>7 DEF SameList
  <2>3. Linked \in SUBSET Nodes
    BY <1>1 DEF ListFacts, PosFacts
  <2>4. Reaches(r, Linked)'
    <3>1. First \in Linked \cup {Nil} /\ \A n \in Linked : NextOf(n) \in Linked \cup {Nil}
      BY <1>1 DEF ListFacts, NextFacts
    <3>2. \A n \in Linked : mem[n] = "used"
      BY <2>3, <1>1 DEF UsedFacts
    <3>3. \A n \in Linked : uidOf[n] = u => grantOf[n] \in {GrantFor(u)}
      BY <1>1 DEF ListFacts, GrantFacts
    <3> QED BY <3>1, <3>2, <3>3, <1>2, <1>7 DEF Reaches, SameList, Guarded
  <2>5. CASE \A n \in Linked : uidOf[n] # u
    <3>1. GrantFor(u) = "none"
      BY <2>5, <1>1 DEF ListFacts, GrantFacts
    <3>2. Absent(r)'
      BY <3>1, <1>7 DEF Absent
    <3> QED BY <3>2, <2>2, <2>3, <2>4, <1>2, <1>7 DEF SectionOK, SameList
  <2>6. CASE \E n \in Linked : uidOf[n] = u
    <3>1. PICK G \in SUBSET Linked :
             First \in G /\ \A n \in G : uidOf[n] = u \/ NextOf(n) \in G
      BY <2>6, <1>1, HeadLeads
    <3>2. Leads(r, G)'
      BY <3>1, <1>2, <1>7 DEF Leads, SameList
    <3> QED BY <3>1, <3>2, <2>2, <2>3, <2>4, <1>2, <1>7 DEF SectionOK, SameList
  <2> QED BY <2>5, <2>6
<1>9. GetOK(r)' /\ AnswerOK(r)'
  BY <1>7 DEF GetOK, AnswerOK
<1> QED BY <1>3, <1>5, <1>6, <1>8, <1>9, ReaderFrame

\* A reader in its section stands on a node that is in memory.
LEMMA StandsOnMemory ==
  ASSUME RcuInv, NEW r \in InSection, cur[r] # Nil
  PROVE  cur[r] \in Nodes /\ mem[cur[r]] # "free" /\ grantOf[cur[r]] \in Grants
<1>1. PICK S \in SUBSET Nodes : Reaches(r, S)
  BY DEF RcuInv, SectionInv, SectionOK
<1>2. cur[r] \in S
  BY <1>1 DEF Reaches
<1> QED BY <1>1, <1>2 DEF Reaches, Guarded, RcuInv, FilledIn

\* A step of r that leaves references alone.
LEMMA ReaderNoReference ==
  ASSUME RcuInv, NEW r \in Readers, UNCHANGED <<listVars, writerVars, ref, mem>>,
         \A s \in Readers \ {r} : rpc'[s] = rpc[s] /\ cur'[s] = cur[s],
         rpc[r] # "hold", rpc'[r] # "hold"
  PROVE  RefcountsExact'
<1>1. \A n \in Nodes : Holders(n)' = Holders(n)
  <2>1. \A s \in Readers, n \in Nodes :
          (rpc'[s] = "hold" /\ cur'[s] = n) <=> (rpc[s] = "hold" /\ cur[s] = n)
    OBVIOUS
  <2> QED BY <2>1, SameHolders
<1>2. Linked' = Linked
  BY DEF Linked, listVars
<1> QED BY <1>1, <1>2, SameReferences DEF RcuInv, writerVars, OwnedByWriter

LEMMA NextStep ==
  ASSUME RcuInv, NEW r \in Readers, LookupNext(r)
  PROVE  RcuInv'
<1>1. ListFacts
  BY ListLemma DEF RcuInv, TypeOK, ListTypes
<1>2. SameList
  BY SameListLemma DEF LookupNext, ReaderOnly, listVars
<1>3. r \in InSection /\ cur[r] # Nil /\ rpc[r] = "walk"
  BY DEF LookupNext, InSection
<1>4. cur[r] \in Nodes /\ grantOf[cur[r]] \in Grants
  BY <1>3, StandsOnMemory
<1>5. NextOf(cur[r]) \in Nodes \cup {Nil}
  BY <1>1, <1>4 DEF ListFacts, NextFacts
<1>6. TypeOK'
  BY <1>5 DEF RcuInv, TypeOK, LookupNext, ReaderOnly, listVars, memVars, writerVars
<1>7. OthersSame(r)
  BY DEF RcuInv, TypeOK, LookupNext, ReaderOnly, OthersSame, memVars, Guarded, listVars
<1>8. RefcountsExact'
  BY <1>3, ReaderNoReference DEF RcuInv, TypeOK, LookupNext, ReaderOnly, memVars
<1>9. /\ UNCHANGED <<rpc, op, uid, seen, mem, grace, uidOf, grantOf>>
      /\ cur'[r] = NextOf(cur[r])
  BY DEF RcuInv, TypeOK, LookupNext, ReaderOnly, memVars, listVars
<1>10. SectionOK(r)'
  <2>1. PICK S \in SUBSET Nodes :
           Reaches(r, S) /\ (Absent(r) \/ \E G \in SUBSET S : Leads(r, G))
    BY <1>3 DEF RcuInv, SectionInv, SectionOK
  <2>2. PICK u : u = uid[r]
    OBVIOUS
  <2>3. GrantFor(uid[r])' = GrantFor(u)' /\ GrantFor(u) = GrantFor(uid[r])
    BY <2>2, <1>9 DEF GrantFor
  <2>4. GrantFor(uid[r])' \in seen'[r]
    BY <2>2, <2>3, <1>2, <1>3, <1>9 DEF SameList, RcuInv, SectionInv, SectionOK
  <2>5. cur[r] \in S
    BY <2>1, <1>3 DEF Reaches
  <2>6. Reaches(r, S)'
    BY <2>1, <2>5, <1>2, <1>9 DEF Reaches, SameList, Guarded
  <2>7. Absent(r) => Absent(r)'
    BY <1>9 DEF Absent
  <2>8. ASSUME NEW G \in SUBSET S, Leads(r, G), ~Absent(r)
        PROVE  Leads(r, G)'
    <3>1. ~(uidOf[cur[r]] = uid[r])
      <4> SUFFICES ASSUME uidOf[cur[r]] = uid[r] PROVE FALSE
        OBVIOUS
      <4>1. op[r] # "app" /\ grantOf[cur[r]] = "deny"
        BY DEF LookupNext, Matches
      <4>2. grantOf[cur[r]] \in seen[r]
        BY <2>1, <2>5 DEF Reaches
      <4> QED BY <4>1, <4>2, <2>8 DEF Absent
    <3>2. NextOf(cur[r]) \in G
      BY <3>1, <2>8 DEF Leads
    <3> QED BY <3>2, <2>8, <1>2, <1>9 DEF Leads, SameList
  <2>9. uid'[r] \in Uids
    BY <1>3, <1>9 DEF RcuInv, SectionInv, SectionOK
  <2> QED BY <2>1, <2>4, <2>6, <2>7, <2>8, <2>9 DEF SectionOK
<1>11. GetOK(r)' /\ AnswerOK(r)'
  BY <1>3, <1>9 DEF GetOK, AnswerOK
<1> QED BY <1>6, <1>7, <1>8, <1>10, <1>11, ReaderFrame

LEMMA LeaveTypes ==
  ASSUME TypeOK, NEW r \in Readers, NEW label \in {"hold", "done"},
         NEW result \in Grants \cup {"none", "yes", "no"}, Leave(r, label, result)
  PROVE  /\ rpc' \in [Readers -> {"idle", "walk", "get", "hold", "done"}]
         /\ res' \in [Readers -> Grants \cup {"none", "yes", "no"}]
         /\ grace' \in [Nodes -> SUBSET Readers]
<1>1. rpc' \in [Readers -> {"idle", "walk", "get", "hold", "done"}]
  BY DEF TypeOK, Leave
<1>2. res' \in [Readers -> Grants \cup {"none", "yes", "no"}]
  BY DEF TypeOK, Leave
<1>3. grace' \in [Nodes -> SUBSET Readers]
  BY DEF TypeOK, Leave
<1> QED BY <1>1, <1>2, <1>3

LEMMA FoundStep ==
  ASSUME RcuInv, NEW r \in Readers, LookupFound(r)
  PROVE  RcuInv'
<1>2. SameList
  BY SameListLemma DEF LookupFound, ReaderOnly, listVars
<1>3. r \in InSection /\ cur[r] # Nil /\ rpc[r] = "walk"
  BY DEF LookupFound, InSection
<1>4. cur[r] \in Nodes /\ grantOf[cur[r]] \in Grants
  BY <1>3, StandsOnMemory
<1>5. PICK S \in SUBSET Nodes : Reaches(r, S)
  BY <1>3 DEF RcuInv, SectionInv, SectionOK
<1>6. grantOf[cur[r]] \in seen[r] /\ uidOf[cur[r]] = uid[r]
  BY <1>3, <1>5 DEF Reaches, LookupFound, Matches
<1>7. CASE WantsNode(r, cur[r])
  <2>1. TypeOK'
    BY <1>7 DEF RcuInv, TypeOK, LookupFound, ReaderOnly, listVars, memVars, writerVars
  <2>2. OthersSame(r)
    BY <1>7 DEF RcuInv, TypeOK, LookupFound, ReaderOnly, OthersSame, memVars, Guarded, listVars
  <2>3. rpc'[r] = "get" /\ UNCHANGED <<cur, op, uid, seen, uidOf, grantOf, mem, grace>>
    BY <1>7 DEF RcuInv, TypeOK, LookupFound, ReaderOnly, listVars
  <2>4. RefcountsExact'
    BY <1>3, <2>2, <2>3, ReaderNoReference DEF LookupFound, ReaderOnly, OthersSame
  <2>5. PICK u : u = uid[r]
    OBVIOUS
  <2>6. GrantFor(uid[r])' = GrantFor(u)' /\ GrantFor(u) = GrantFor(uid[r])
    BY <2>3, <2>5 DEF GrantFor
  <2>7. GrantFor(uid[r])' \in seen'[r]
    BY <2>3, <2>5, <2>6, <1>2, <1>3 DEF SameList, RcuInv, SectionInv, SectionOK
  <2>8. Reaches(r, S)'
    BY <2>3, <1>2, <1>5 DEF Reaches, SameList, Guarded
  <2>9. SectionOK(r)'
    BY <2>3, <2>7, <2>8, <1>3 DEF SectionOK, RcuInv, SectionInv
  <2>10. GetOK(r)' /\ AnswerOK(r)'
    BY <2>3, <1>4, <1>6, <1>7 DEF GetOK, AnswerOK, WantsNode
  <2> QED BY <2>1, <2>2, <2>4, <2>9, <2>10, ReaderFrame
<1>8. CASE ~WantsNode(r, cur[r])
  <2>1. TypeOK'
    <3>1. Leave(r, "done", IF op[r] = "allow" THEN "yes" ELSE "default")
      BY <1>8 DEF LookupFound
    <3>2. TypeOK => rpc' \in [Readers -> {"idle", "walk", "get", "hold", "done"}]
                   /\ res' \in [Readers -> Grants \cup {"none", "yes", "no"}]
                   /\ grace' \in [Nodes -> SUBSET Readers]
      BY <3>1, LeaveTypes DEF Grants
    <3> QED BY <3>2, <1>8 DEF RcuInv, TypeOK, LookupFound, ReaderOnly, listVars, writerVars
  <2>2. OthersSame(r)
    BY <1>8 DEF RcuInv, TypeOK, LookupFound, Leave, ReaderOnly, OthersSame, Guarded, listVars
  <2>3. /\ rpc'[r] = "done" /\ UNCHANGED <<op, uid, seen>>
        /\ res'[r] = IF op[r] = "allow" THEN "yes" ELSE "default"
    BY <1>8 DEF RcuInv, TypeOK, LookupFound, Leave
  <2>4. RefcountsExact'
    BY <1>3, <2>2, <2>3, ReaderNoReference DEF LookupFound, ReaderOnly, OthersSame
  <2>5. res'[r] = Answer(op[r], grantOf[cur[r]])
    <3>1. op[r] \in Ops
      BY DEF RcuInv, TypeOK
    <3> QED BY <3>1, <2>3, <1>4, <1>8 DEF LookupFound, Matches, WantsNode, Answer, Grants, Ops
  <2>6. GetOK(r)' /\ AnswerOK(r)' /\ r \notin InSection'
    BY <2>3, <2>5, <1>6 DEF GetOK, AnswerOK, RightAnswer, InSection
  <2> QED BY <2>1, <2>2, <2>4, <2>6, ReaderFrame
<1> QED BY <1>7, <1>8

LEMMA MissedStep ==
  ASSUME RcuInv, NEW r \in Readers, LookupMissed(r)
  PROVE  RcuInv'
<1>1. r \in InSection /\ cur[r] = Nil /\ rpc[r] = "walk"
  BY DEF LookupMissed, InSection
<1>2. PICK S \in SUBSET Nodes :
         Reaches(r, S) /\ (Absent(r) \/ \E G \in SUBSET S : Leads(r, G))
  BY <1>1 DEF RcuInv, SectionInv, SectionOK
<1>3. Absent(r)
  BY <1>1, <1>2, AllowlistAssumption DEF Leads, AllowlistAssumption
<1>4. TypeOK'
  <2>1. rpc' \in [Readers -> {"idle", "walk", "get", "hold", "done"}]
        /\ res' \in [Readers -> Grants \cup {"none", "yes", "no"}]
        /\ grace' \in [Nodes -> SUBSET Readers]
    BY LeaveTypes DEF LookupMissed, RcuInv, Grants
  <2> QED BY <2>1 DEF RcuInv, TypeOK, LookupMissed, ReaderOnly, listVars, writerVars
<1>5. OthersSame(r)
  BY DEF RcuInv, TypeOK, LookupMissed, Leave, ReaderOnly, OthersSame, Guarded, listVars
<1>6. /\ rpc'[r] = "done" /\ UNCHANGED <<op, uid, seen>> /\ op[r] \in Ops
      /\ res'[r] = Answer(op[r], "none")
  BY DEF RcuInv, TypeOK, LookupMissed, Leave, Ops, Answer
<1>7. RefcountsExact'
  BY <1>1, <1>5, <1>6, ReaderNoReference DEF LookupMissed, ReaderOnly, OthersSame
<1>8. op[r] # "app" => Answer(op[r], "none") = Answer(op[r], "deny")
  BY DEF Answer
<1>9. GetOK(r)' /\ AnswerOK(r)' /\ r \notin InSection'
  BY <1>3, <1>6, <1>8 DEF GetOK, AnswerOK, RightAnswer, InSection, Absent
<1> QED BY <1>4, <1>5, <1>7, <1>9, ReaderFrame

LEMMA RefStep ==
  ASSUME RcuInv, NEW r \in Readers, LookupRef(r)
  PROVE  RcuInv'
<1>1. r \in InSection /\ rpc[r] = "get"
  BY DEF LookupRef, InSection
<1>2. cur[r] \in Nodes /\ cur[r] # Nil
  BY <1>1, AllowlistAssumption DEF RcuInv, GetInv, GetOK, AllowlistAssumption
<1>3. PICK c \in Nodes : c = cur[r]
  BY <1>2
<1>4. grantOf[c] \in Grants /\ mem[c] # "free"
  BY <1>1, <1>2, <1>3, StandsOnMemory
<1>5. PICK S \in SUBSET Nodes : Reaches(r, S)
  BY <1>1 DEF RcuInv, SectionInv, SectionOK
<1>6. SameList
  BY SameListLemma DEF LookupRef, ReaderOnly, listVars
<1>7. CASE ref[c] # 0
  <2>1. /\ ref' = [ref EXCEPT ![c] = @ + 1]
        /\ Leave(r, "hold", grantOf[c])
        /\ UNCHANGED <<cur, op, uid, mem, seen, listVars, writerVars>>
    BY <1>3, <1>7 DEF LookupRef, ReaderOnly
  <2>2. TypeOK'
    <3>1. rpc' \in [Readers -> {"idle", "walk", "get", "hold", "done"}]
          /\ res' \in [Readers -> Grants \cup {"none", "yes", "no"}]
          /\ grace' \in [Nodes -> SUBSET Readers]
      BY <2>1, <1>4, LeaveTypes DEF RcuInv
    <3> QED BY <3>1, <2>1 DEF RcuInv, TypeOK, listVars, writerVars
  <2>3. OthersSame(r)
    BY <2>1 DEF RcuInv, TypeOK, Leave, OthersSame, Guarded, listVars
  <2>4. /\ rpc'[r] = "hold" /\ res'[r] = grantOf[c]
        /\ \A s \in Readers \ {r} : rpc'[s] = rpc[s]
    BY <2>1 DEF RcuInv, TypeOK, Leave
  <2>5. RefcountsExact'
    <3>1. ASSUME NEW n \in Nodes
          PROVE  Holders(n)' = IF n = c THEN Holders(n) \cup {r} ELSE Holders(n)
      BY <2>1, <2>4, <1>1, <1>3 DEF Holders
    <3>2. r \notin Holders(c)
      BY <1>1 DEF Holders
    <3>3. ASSUME NEW n \in Nodes
          PROVE  Cardinality(Holders(n)') = Cardinality(Holders(n)) + (IF n = c THEN 1 ELSE 0)
      BY <3>1, <3>2, HoldersFinite, FS_AddElement
    <3>4. \A n \in Nodes : (n \in Linked \/ OwnedByWriter(n))' <=> (n \in Linked \/ OwnedByWriter(n))
      BY <2>1, <1>6 DEF SameList, OwnedByWriter, writerVars
    <3>5. mem[c] = "used" /\ ref[c] > 0
      BY <1>4, <1>7 DEF RcuInv, TypeOK, RefcountsExact
    <3>6. \A n \in Nodes : ref'[n] = ref[n] + (IF n = c THEN 1 ELSE 0) /\ mem'[n] = mem[n] /\ ref[n] \in Nat
      BY <2>1 DEF RcuInv, TypeOK
    <3>7. ASSUME NEW n \in Nodes
          PROVE  /\ mem[n] = "used" <=> ref[n] > 0
                 /\ Cardinality(Holders(n)) \in Nat
                 /\ ref[n] = Cardinality(Holders(n))
                             + (IF n \in Linked \/ OwnedByWriter(n) THEN 1 ELSE 0)
      BY HoldersFinite DEF RcuInv, RefcountsExact
    <3>8. ASSUME NEW n \in Nodes
          PROVE  /\ (mem[n] = "used" <=> ref[n] > 0)'
                 /\ (ref[n] = Cardinality(Holders(n))
                              + (IF n \in Linked \/ OwnedByWriter(n) THEN 1 ELSE 0))'
      BY <3>3, <3>4, <3>5, <3>6, <3>7
    <3> QED BY <3>8 DEF RefcountsExact
  <2>6. res'[r] = Answer(op[r], grantOf[c]) /\ grantOf[c] \in seen[r]
    BY <2>4, <1>1, <1>2, <1>3, <1>5 DEF RcuInv, GetInv, GetOK, Reaches, Answer
  <2>7. GetOK(r)' /\ AnswerOK(r)' /\ r \notin InSection'
    BY <2>1, <2>4, <2>6, <1>2 DEF GetOK, AnswerOK, RightAnswer, InSection
  <2> QED BY <2>2, <2>3, <2>5, <2>7, ReaderFrame
<1>8. CASE ref[c] = 0
  <2>1. /\ rpc' = [rpc EXCEPT ![r] = "walk"]
        /\ cur' = [cur EXCEPT ![r] = First]
        /\ UNCHANGED <<ref, res, grace, op, uid, mem, seen, listVars, writerVars>>
    BY <1>3, <1>8 DEF LookupRef, ReaderOnly
  <2>2. ListFacts
    BY ListLemma DEF RcuInv, TypeOK, ListTypes
  <2>3. First \in Nodes \cup {Nil}
    BY <2>2 DEF ListFacts, PosFacts, NextFacts
  <2>4. TypeOK'
    BY <2>1, <2>3 DEF RcuInv, TypeOK, listVars, writerVars
  <2>5. OthersSame(r)
    BY <2>1 DEF RcuInv, TypeOK, OthersSame, Guarded, listVars
  <2>6. rpc'[r] = "walk" /\ cur'[r] = First
    BY <2>1 DEF RcuInv, TypeOK
  <2>7. RefcountsExact'
    BY <1>1, <2>1, <2>5, <2>6, ReaderNoReference DEF OthersSame
  <2>8. PICK u : u = uid[r]
    OBVIOUS
  <2>9. GrantFor(uid[r])' = GrantFor(u)' /\ GrantFor(u) = GrantFor(uid[r])
    BY <2>1, <2>8 DEF GrantFor
  <2>10. GrantFor(u) \in seen[r] /\ u \in Uids
    BY <2>8, <2>9, <1>1 DEF RcuInv, SectionInv, SectionOK
  <2>11. GrantFor(uid[r])' \in seen'[r] /\ uid'[r] \in Uids
    BY <2>1, <2>8, <2>9, <2>10, <1>6 DEF SameList
  <2>12. Linked \subseteq S /\ First \in S \cup {Nil}
    BY <2>2, <1>5 DEF Reaches, ListFacts, NextFacts
  <2>13. Reaches(r, S)'
    BY <2>1, <2>6, <2>12, <1>5, <1>6 DEF Reaches, SameList, Guarded, listVars
  <2>14. Absent(r)' \/ \E G \in SUBSET S : Leads(r, G)'
    <3>1. CASE \A n \in Linked : uidOf[n] # u
      <4>1. GrantFor(u) = "none"
        BY <3>1, <2>2 DEF ListFacts, GrantFacts
      <4> QED BY <4>1, <2>1, <2>10 DEF Absent
    <3>2. CASE \E n \in Linked : uidOf[n] = u
      <4>1. PICK G \in SUBSET Linked :
               First \in G /\ \A n \in G : uidOf[n] = u \/ NextOf(n) \in G
        BY <3>2, <2>2, HeadLeads
      <4>2. Leads(r, G)'
        BY <4>1, <2>1, <2>6, <2>8, <1>6 DEF Leads, SameList, listVars
      <4> QED BY <4>1, <4>2, <2>12
    <3> QED BY <3>1, <3>2
  <2>16. SectionOK(r)'
    BY <2>11, <2>13, <2>14 DEF SectionOK
  <2>17. GetOK(r)' /\ AnswerOK(r)'
    BY <2>6 DEF GetOK, AnswerOK
  <2> QED BY <2>4, <2>5, <2>7, <2>16, <2>17, ReaderFrame
<1> QED BY <1>7, <1>8

LEMMA ResetTypes ==
  ASSUME TypeOK, NEW r \in Readers, Reset(r)
  PROVE  /\ rpc' \in [Readers -> {"idle", "walk", "get", "hold", "done"}]
         /\ op' \in [Readers -> Ops]
         /\ uid' \in [Readers -> Uids \cup {Nil}]
         /\ cur' \in [Readers -> Nodes \cup {Nil}]
         /\ res' \in [Readers -> Grants \cup {"none", "yes", "no"}]
         /\ seen' \in [Readers -> SUBSET (Grants \cup {"none"})]
         /\ rpc'[r] = "idle"
BY DEF TypeOK, Reset, Ops

LEMMA DoneStep ==
  ASSUME RcuInv, NEW r \in Readers, LookupDone(r)
  PROVE  RcuInv'
<1>1. TypeOK' /\ rpc'[r] = "idle"
  BY ResetTypes DEF RcuInv, LookupDone, TypeOK, ReaderOnly, memVars, writerVars, listVars
<1>2. OthersSame(r)
  BY DEF RcuInv, TypeOK, LookupDone, Reset, ReaderOnly, OthersSame, memVars, Guarded, listVars
<1>3. RefcountsExact'
  BY <1>1, <1>2, ReaderNoReference DEF LookupDone, ReaderOnly, OthersSame, memVars
<1>4. GetOK(r)' /\ AnswerOK(r)' /\ r \notin InSection'
  BY <1>1 DEF GetOK, AnswerOK, InSection
<1> QED BY <1>1, <1>2, <1>3, <1>4, ReaderFrame

\* put_perm_data() of a node that some reference keeps.
LEMMA PutTypes ==
  ASSUME TypeOK, NEW c \in Nodes, ref[c] > 0, put_perm_data(c)
  PROVE  /\ ref' \in [Nodes -> Nat]
         /\ mem' \in [Nodes -> {"free", "used", "dying"}]
         /\ grace' \in [Nodes -> SUBSET Readers]
         /\ \A n \in Nodes : ref'[n] = ref[n] - (IF n = c THEN 1 ELSE 0)
         /\ \A n \in Nodes : mem'[n] = IF n = c /\ ref[c] = 1 THEN "dying" ELSE mem[n]
         /\ \A n \in Nodes : grace'[n] = IF n = c /\ ref[c] = 1 THEN InSection ELSE grace[n]
<1>1. ref' \in [Nodes -> Nat] /\ \A n \in Nodes : ref'[n] = ref[n] - (IF n = c THEN 1 ELSE 0)
  BY DEF TypeOK, put_perm_data
<1>2. /\ mem' \in [Nodes -> {"free", "used", "dying"}]
      /\ \A n \in Nodes : mem'[n] = IF n = c /\ ref[c] = 1 THEN "dying" ELSE mem[n]
  BY DEF TypeOK, put_perm_data
<1>3. InSection \in SUBSET Readers
  BY DEF InSection
<1>4. /\ grace' \in [Nodes -> SUBSET Readers]
      /\ \A n \in Nodes : grace'[n] = IF n = c /\ ref[c] = 1 THEN InSection ELSE grace[n]
  BY <1>3 DEF TypeOK, put_perm_data
<1> QED BY <1>1, <1>2, <1>4

\* A put leaves guarded what was guarded, and no node without its grace period.
LEMMA PutGuards ==
  ASSUME TypeOK, NEW c \in Nodes, ref[c] > 0, mem[c] = "used", put_perm_data(c)
  PROVE  /\ \A s \in InSection, n \in Nodes : Guarded(s, n) => Guarded(s, n)'
         /\ \A n \in Nodes : mem'[n] = "free" <=> mem[n] = "free"
BY PutTypes DEF Guarded

\* The count of c goes down with one of the references to it.
LEMMA PutReferences ==
  ASSUME RcuInv, NEW c \in Nodes, ref[c] > 0, mem[c] = "used", put_perm_data(c),
         \A n \in Nodes :
            Cardinality(Holders(n)') + (IF n \in Linked' \/ OwnedByWriter(n)' THEN 1 ELSE 0)
            = Cardinality(Holders(n)) + (IF n \in Linked \/ OwnedByWriter(n) THEN 1 ELSE 0)
              - (IF n = c THEN 1 ELSE 0)
  PROVE  RefcountsExact'
<1>1. \A n \in Nodes : Cardinality(Holders(n)) \in Nat
  BY HoldersFinite
<1>2. \A n \in Nodes : /\ mem[n] = "used" <=> ref[n] > 0
                       /\ ref[n] \in Nat
                       /\ ref[n] = Cardinality(Holders(n))
                                   + (IF n \in Linked \/ OwnedByWriter(n) THEN 1 ELSE 0)
  BY DEF RcuInv, RefcountsExact, TypeOK
<1>3. /\ \A n \in Nodes : ref'[n] = ref[n] - (IF n = c THEN 1 ELSE 0)
      /\ \A n \in Nodes : mem'[n] = IF n = c /\ ref[c] = 1 THEN "dying" ELSE mem[n]
  BY PutTypes DEF RcuInv
<1>4. ASSUME NEW n \in Nodes
      PROVE  mem'[n] = "used" <=> ref'[n] > 0
  BY <1>2, <1>3
<1>5. ASSUME NEW n \in Nodes
      PROVE  ref'[n] = Cardinality(Holders(n)')
                       + (IF n \in Linked' \/ OwnedByWriter(n)' THEN 1 ELSE 0)
  BY <1>1, <1>2, <1>3
<1> QED BY <1>4, <1>5 DEF RefcountsExact

LEMMA PutStep ==
  ASSUME RcuInv, NEW r \in Readers, LookupPut(r)
  PROVE  RcuInv'
<1>1. rpc[r] = "hold" /\ cur[r] \in Nodes
  BY DEF LookupPut, RcuInv, GetInv, GetOK
<1>2. PICK c \in Nodes : c = cur[r]
  BY <1>1
<1>3. put_perm_data(c) /\ Reset(r) /\ UNCHANGED <<listVars, writerVars>>
  BY <1>2 DEF LookupPut, ReaderOnly
<1>4. mem[c] = "used" /\ ref[c] > 0
  BY <1>1, <1>2, UsedLemma DEF RcuInv, UsedFacts
<1>5. TypeOK' /\ rpc'[r] = "idle"
  BY <1>3, <1>4, ResetTypes, PutTypes DEF RcuInv, TypeOK, listVars, writerVars
<1>6. OthersSame(r)
  <2>1. \A s \in Readers \ {r} :
          /\ rpc'[s] = rpc[s] /\ op'[s] = op[s] /\ uid'[s] = uid[s]
          /\ cur'[s] = cur[s] /\ res'[s] = res[s] /\ seen'[s] = seen[s]
    BY <1>3 DEF RcuInv, TypeOK, Reset
  <2> QED BY <2>1, <1>3, <1>4, PutGuards DEF RcuInv, OthersSame
<1>7. RefcountsExact'
  <2>1. \A s \in Readers \ {r} : rpc'[s] = rpc[s] /\ cur'[s] = cur[s]
    BY <1>6 DEF OthersSame
  <2>2. ASSUME NEW n \in Nodes
        PROVE  Holders(n)' = IF n = c THEN Holders(n) \ {r} ELSE Holders(n)
    BY <2>1, <1>1, <1>2, <1>5 DEF Holders
  <2>3. r \in Holders(c)
    BY <1>1, <1>2 DEF Holders
  <2>4. ASSUME NEW n \in Nodes
        PROVE  Cardinality(Holders(n)') = Cardinality(Holders(n)) - (IF n = c THEN 1 ELSE 0)
    BY <2>2, <2>3, HoldersFinite, FS_RemoveElement
  <2>5. Linked' = Linked
    BY <1>3 DEF Linked, listVars
  <2>6. \A n \in Nodes : OwnedByWriter(n)' <=> OwnedByWriter(n)
    BY <1>3 DEF OwnedByWriter, writerVars
  <2>7. \A n \in Nodes :
          Cardinality(Holders(n)') + (IF n \in Linked' \/ OwnedByWriter(n)' THEN 1 ELSE 0)
          = Cardinality(Holders(n)) + (IF n \in Linked \/ OwnedByWriter(n) THEN 1 ELSE 0)
            - (IF n = c THEN 1 ELSE 0)
    BY <2>4, <2>5, <2>6, HoldersFinite
  <2> QED BY <2>7, <1>3, <1>4, PutReferences
<1>8. GetOK(r)' /\ AnswerOK(r)' /\ r \notin InSection'
  BY <1>5 DEF GetOK, AnswerOK, InSection
<1> QED BY <1>5, <1>6, <1>7, <1>8, ReaderFrame

-----------------------------------------------------------------------------
(* The writer's steps, and the end of a grace period *)

LEMMA WriterFrame ==
  ASSUME RcuInv, UNCHANGED readerVars,
         TypeOK', FilledIn', ListOK', WriterOK', RefcountsExact',
         \A s \in InSection : SectionOK(s)',
         \A s \in Readers \ InSection : seen'[s] = seen[s],
         \A n \in Nodes : mem[n] # "free" => uidOf'[n] = uidOf[n] /\ grantOf'[n] = grantOf[n]
  PROVE  RcuInv'
<1>1. InSection' = InSection
  BY DEF InSection, readerVars
<1>2. SectionInv'
  BY <1>1 DEF SectionInv
<1>3. GetInv'
  <2> SUFFICES ASSUME NEW s \in Readers PROVE GetOK(s)'
    BY DEF GetInv
  <2>1. GetOK(s)
    BY DEF RcuInv, GetInv
  <2>2. CASE rpc[s] = "get"
    <3>1. s \in InSection /\ cur[s] \in Nodes
      BY <2>1, <2>2 DEF InSection, GetOK
    <3>2. mem[cur[s]] # "free"
      BY <3>1, StandsOnMemory, AllowlistAssumption DEF AllowlistAssumption
    <3> QED BY <2>1, <2>2, <3>1, <3>2 DEF GetOK, readerVars
  <2>3. CASE rpc[s] # "get"
    BY <2>1, <2>3 DEF GetOK, readerVars
  <2> QED BY <2>2, <2>3
<1>4. LookupSeesSomeState'
  <2> SUFFICES ASSUME NEW s \in Readers, rpc'[s] \in {"hold", "done"} PROVE RightAnswer(s)'
    BY DEF LookupSeesSomeState
  <2>1. s \notin InSection /\ RightAnswer(s)
    BY DEF InSection, readerVars, RcuInv, LookupSeesSomeState
  <2> QED BY <2>1 DEF RightAnswer, readerVars
<1> QED BY <1>2, <1>3, <1>4 DEF RcuInv

LEMMA QuietFrame ==
  ASSUME RcuInv, UNCHANGED <<chain, stale, uidOf, grantOf, readerVars, seen>>,
         TypeOK', RefcountsExact', WriterOK',
         (allow_list_count = Len(chain) + (IF wpc = "prune_put" THEN 1 ELSE 0))',
         allow_list_count' <= MaxCount,
         \A s \in InSection, n \in Nodes : Guarded(s, n) => Guarded(s, n)',
         \A n \in Nodes : mem'[n] = "free" <=> mem[n] = "free"
  PROVE  RcuInv'
<1>1. SameList
  BY SameListLemma
<1>2. FilledIn' /\ ListOK'
  BY DEF RcuInv, FilledIn, ListOK
<1>3. ASSUME NEW s \in InSection
      PROVE  SectionOK(s)'
  <2>1. s \in Readers /\ SectionOK(s)
    BY DEF InSection, RcuInv, SectionInv
  <2> QED BY <2>1, <1>1, SectionKept DEF readerVars
<1> QED BY <1>2, <1>3, WriterFrame

LEMMA SameReaders ==
  ASSUME UNCHANGED readerVars
  PROVE  \A n \in Nodes : Holders(n)' = Holders(n)
BY DEF Holders, readerVars

LEMMA PutReplacedStep ==
  ASSUME RcuInv, PutReplaced
  PROVE  RcuInv'
<1>1. PICK c \in Nodes : c = victim
  BY DEF RcuInv, WriterOK, PutReplaced, PutVictim
<1>2. /\ wpc = "put" /\ wpc' = "idle" /\ victim' = Nil /\ put_perm_data(c)
      /\ UNCHANGED <<chain, stale, uidOf, grantOf, readerVars, seen, keep, allow_list_count>>
  BY <1>1 DEF PutReplaced, PutVictim
<1>3. mem[c] = "used" /\ ref[c] > 0
  BY <1>1, <1>2, UsedLemma DEF RcuInv, UsedFacts, OwnedByWriter
<1>4. TypeOK'
  BY <1>2, <1>3, PutTypes DEF RcuInv, TypeOK, readerVars
<1>5. RefcountsExact'
  <2>1. \A n \in Nodes : Holders(n)' = Holders(n)
    BY <1>2, SameReaders
  <2>2. Linked' = Linked /\ c \notin Linked
    BY <1>1, <1>2 DEF Linked, RcuInv, WriterOK
  <2>3. \A n \in Nodes : (OwnedByWriter(n) <=> n = c) /\ ~OwnedByWriter(n)'
    BY <1>1, <1>2 DEF OwnedByWriter
  <2>4. \A n \in Nodes :
          Cardinality(Holders(n)') + (IF n \in Linked' \/ OwnedByWriter(n)' THEN 1 ELSE 0)
          = Cardinality(Holders(n)) + (IF n \in Linked \/ OwnedByWriter(n) THEN 1 ELSE 0)
            - (IF n = c THEN 1 ELSE 0)
    BY <2>1, <2>2, <2>3, HoldersFinite
  <2> QED BY <2>4, <1>2, <1>3, PutReferences
<1>6. WriterOK'
  BY <1>2 DEF WriterOK
<1>7. (allow_list_count = Len(chain) + (IF wpc = "prune_put" THEN 1 ELSE 0))'
      /\ allow_list_count' <= MaxCount
  BY <1>2 DEF RcuInv, ListOK
<1> QED BY <1>2, <1>3, <1>4, <1>5, <1>6, <1>7, PutGuards, QuietFrame DEF RcuInv

LEMMA PrunePutStep ==
  ASSUME RcuInv, PrunePut
  PROVE  RcuInv'
<1>1. PICK c \in Nodes : c = victim
  BY DEF RcuInv, WriterOK, PrunePut, PutVictim
<1>2. /\ wpc = "prune_put" /\ wpc' = "prune" /\ victim' = stale[c] /\ put_perm_data(c)
      /\ allow_list_count' = allow_list_count - 1
      /\ UNCHANGED <<chain, stale, uidOf, grantOf, readerVars, seen, keep>>
  BY <1>1 DEF PrunePut, PutVictim
<1>3. mem[c] = "used" /\ ref[c] > 0
  BY <1>1, <1>2, UsedLemma DEF RcuInv, UsedFacts, OwnedByWriter
<1>4. Len(chain) \in Nat /\ allow_list_count = Len(chain) + 1 /\ allow_list_count <= MaxCount
  BY <1>2, LenProperties DEF RcuInv, ListOK, TypeOK
<1>5. TypeOK'
  BY <1>2, <1>3, <1>4, PutTypes DEF RcuInv, TypeOK, readerVars
<1>6. Linked' = Linked /\ c \notin Linked /\ stale[c] \in Linked \cup {Nil}
  BY <1>1, <1>2 DEF Linked, RcuInv, WriterOK
<1>7. RefcountsExact'
  <2>1. \A n \in Nodes : Holders(n)' = Holders(n)
    BY <1>2, SameReaders
  <2>3. \A n \in Nodes : (OwnedByWriter(n) <=> n = c) /\ ~OwnedByWriter(n)'
    BY <1>1, <1>2 DEF OwnedByWriter
  <2>4. \A n \in Nodes :
          Cardinality(Holders(n)') + (IF n \in Linked' \/ OwnedByWriter(n)' THEN 1 ELSE 0)
          = Cardinality(Holders(n)) + (IF n \in Linked \/ OwnedByWriter(n) THEN 1 ELSE 0)
            - (IF n = c THEN 1 ELSE 0)
    BY <2>1, <2>3, <1>6, HoldersFinite
  <2> QED BY <2>4, <1>2, <1>3, PutReferences
<1>8. WriterOK'
  BY <1>2, <1>6 DEF WriterOK
<1>9. (allow_list_count = Len(chain) + (IF wpc = "prune_put" THEN 1 ELSE 0))'
      /\ allow_list_count' <= MaxCount
  BY <1>2, <1>4, AllowlistAssumption DEF AllowlistAssumption
<1> QED BY <1>2, <1>3, <1>5, <1>7, <1>8, <1>9, PutGuards, QuietFrame DEF RcuInv

\* The steps of a prune that only move its cursor.
LEMMA PruneWalkStep ==
  ASSUME RcuInv, (\E valid \in SUBSET Uids : PruneStart(valid)) \/ PruneSkip \/ PruneEnd
  PROVE  RcuInv'
<1>1. ListFacts
  BY ListLemma DEF RcuInv, TypeOK, ListTypes
<1>2. /\ UNCHANGED <<listVars, memVars, readerVars, seen>>
      /\ wpc \in {"idle", "prune"} /\ wpc' \in {"idle", "prune"}
      /\ wpc' = "prune" => victim' \in Linked \cup {Nil}
      /\ victim' \in Nodes \cup {Nil} /\ keep' \subseteq Uids
  <2>1. ASSUME NEW valid \in SUBSET Uids, PruneStart(valid)
        PROVE  victim' \in Linked \cup {Nil} /\ keep' \subseteq Uids
    BY <2>1, <1>1 DEF PruneStart, ListFacts, NextFacts
  <2>2. CASE PruneSkip
    <3>1. victim \in Linked /\ victim' = NextOf(victim)
      BY <2>2 DEF PruneSkip, RcuInv, WriterOK
    <3>2. victim' \in Linked \cup {Nil}
      BY <3>1, <1>1 DEF ListFacts, NextFacts
    <3> QED BY <2>2, <3>2, <1>1 DEF PruneSkip, RcuInv, TypeOK, ListFacts, PosFacts
  <2>3. CASE PruneEnd
    BY <2>3 DEF PruneEnd, RcuInv, TypeOK
  <2>4. \A n \in Linked : n \in Nodes
    BY <1>1 DEF ListFacts, PosFacts
  <2> QED BY <2>1, <2>2, <2>3, <2>4 DEF PruneStart
<1>3. TypeOK'
  BY <1>2 DEF RcuInv, TypeOK, listVars, memVars, readerVars
<1>4. RefcountsExact'
  <2>1. Linked' = Linked
    BY <1>2 DEF Linked, listVars
  <2> QED BY <2>1, <1>2, SameReaders, SameReferences DEF RcuInv, memVars, OwnedByWriter
<1>5. WriterOK'
  <2>1. Linked' = Linked
    BY <1>2 DEF Linked, listVars
  <2> QED BY <2>1, <1>2 DEF WriterOK
<1>6. /\ (allow_list_count = Len(chain) + (IF wpc = "prune_put" THEN 1 ELSE 0))'
      /\ allow_list_count' <= MaxCount
  BY <1>2 DEF RcuInv, ListOK, listVars
<1> QED BY <1>2, <1>3, <1>4, <1>5, <1>6, QuietFrame DEF Guarded, listVars, memVars

LEMMA ReplaceStep ==
  ASSUME RcuInv, NEW u \in Uids, NEW g \in Grants, NEW n \in Nodes, Replace(u, g, n)
  PROVE  RcuInv'
<1>1. /\ ListTypes' /\ ListOK'
      /\ victim' \in Linked /\ victim' # n /\ uidOf[victim'] = u
      /\ n \notin Linked
      /\ Linked' = (Linked \ {victim'}) \cup {n}
      /\ Relinked(victim', n, NextOf(victim'))
      /\ stale'[victim'] = NextOf(victim')
  BY ReplaceShape DEF RcuInv
<1>2. ListFacts /\ UsedFacts
  BY ListLemma, UsedLemma DEF RcuInv, TypeOK, ListTypes
<1>3. ListFacts'
  <2>1. (ListTypes /\ ListOK => ListFacts)'
    BY ListLemma, PTL
  <2> QED BY <2>1, <1>1
<1>4. PICK old \in Linked : old = victim'
  BY <1>1
<1>5. old \in Nodes
  BY <1>2 DEF ListFacts, PosFacts
<1>6. /\ wpc = "idle" /\ wpc' = "put" /\ mem[n] = "free" /\ Observe
      /\ mem' = [mem EXCEPT ![n] = "used"] /\ ref' = [ref EXCEPT ![n] = 1]
      /\ uidOf' = [uidOf EXCEPT ![n] = u] /\ grantOf' = [grantOf EXCEPT ![n] = g]
      /\ UNCHANGED <<allow_list_count, grace, keep, readerVars>>
  BY DEF Replace, Allocate
<1>7. TypeOK'
  <2>1. seen' \in [Readers -> SUBSET (Grants \cup {"none"})]
    BY <1>1, <1>6, ObserveType DEF RcuInv, TypeOK, readerVars
  <2>2. ref' \in [Nodes -> Nat] /\ mem' \in [Nodes -> {"free", "used", "dying"}]
    BY <1>6 DEF RcuInv, TypeOK
  <2> QED BY <2>1, <2>2, <1>1, <1>4, <1>5, <1>6 DEF RcuInv, TypeOK, ListTypes, readerVars
<1>8. \A m \in Nodes : /\ mem'[m] = IF m = n THEN "used" ELSE mem[m]
                       /\ ref'[m] = IF m = n THEN 1 ELSE ref[m]
                       /\ uidOf'[m] = IF m = n THEN u ELSE uidOf[m]
                       /\ grantOf'[m] = IF m = n THEN g ELSE grantOf[m]
  BY <1>6 DEF RcuInv, TypeOK
<1>9. FilledIn' /\ WriterOK'
  BY <1>1, <1>4, <1>5, <1>6, <1>8 DEF RcuInv, FilledIn, WriterOK
<1>10. RefcountsExact'
  <2>1. \A m \in Nodes : Holders(m)' = Holders(m)
    BY <1>6, SameReaders
  <2>2. \A m \in Nodes : OwnedByWriter(m)' <=> m = old
    BY <1>4, <1>6 DEF OwnedByWriter
  <2>3. \A m \in Nodes : ~OwnedByWriter(m)
    BY <1>6 DEF OwnedByWriter
  <2>4. ASSUME NEW m \in Nodes
        PROVE  /\ mem[m] = "used" <=> ref[m] > 0
               /\ Cardinality(Holders(m)) \in Nat
               /\ ref[m] = Cardinality(Holders(m)) + (IF m \in Linked THEN 1 ELSE 0)
               /\ ref[m] \in Nat
    BY <2>3, HoldersFinite DEF RcuInv, RefcountsExact, TypeOK
  <2>5. ASSUME NEW m \in Nodes
        PROVE  /\ (mem[m] = "used" <=> ref[m] > 0)'
               /\ (ref[m] = Cardinality(Holders(m))
                            + (IF m \in Linked \/ OwnedByWriter(m) THEN 1 ELSE 0))'
    <3>1. CASE m = n
      BY <3>1, <2>1, <2>4, <1>1, <1>6, <1>8
    <3>2. CASE m # n
      BY <3>2, <2>1, <2>2, <2>4, <1>1, <1>4, <1>8
    <3> QED BY <3>1, <3>2
  <2> QED BY <2>5 DEF RefcountsExact
<1>11. ASSUME NEW s \in InSection
       PROVE  SectionOK(s)'
  <2>1. s \in Readers /\ SectionOK(s)
    BY DEF InSection, RcuInv, SectionInv
  <2>2. PICK w : w = uid[s]
    OBVIOUS
  <2>3. w \in Uids /\ seen'[s] = seen[s] \cup {GrantFor(w)'} /\ uid'[s] = w
    BY <2>1, <2>2, <1>6, ObserveLemma DEF readerVars, SectionOK
  <2>4. GrantFor(uid[s])' = GrantFor(w)'
    BY <2>3 DEF GrantFor
  <2>5. PICK S \in SUBSET Nodes :
           /\ Reaches(s, S)
           /\ rpc[s] = "walk" => Absent(s) \/ \E G \in SUBSET S : Leads(s, G)
    BY <2>1 DEF SectionOK
  <2>6. old \in S /\ n \notin S
    BY <2>5, <1>6 DEF Reaches, Guarded
  <2>7. Reaches(s, S \cup {n})'
    <3>1. Linked' \subseteq S \cup {n} /\ cur'[s] \in (S \cup {n}) \cup {Nil}
      BY <2>5, <1>1, <1>6 DEF Reaches, readerVars
    <3>2. \A m \in S \cup {n} : NextOf(m)' \in (S \cup {n}) \cup {Nil}
      BY <2>5, <2>6, <1>1, <1>4 DEF Reaches, Relinked
    <3>3. \A m \in S \cup {n} : Guarded(s, m)'
      BY <2>5, <1>6, <1>8 DEF Reaches, Guarded
    <3>4. ASSUME NEW m \in S \cup {n}, uidOf'[m] = w
          PROVE  grantOf'[m] \in seen'[s]
      <4>1. CASE m = n
        <5>1. n \in Linked'
          BY <1>1
        <5>2. GrantFor(w)' = grantOf'[n]
          BY <4>1, <5>1, <3>4, <1>3 DEF ListFacts, GrantFacts
        <5> QED BY <4>1, <5>2, <2>3
      <4>2. CASE m # n
        BY <4>2, <3>4, <2>2, <2>3, <2>5, <1>8 DEF Reaches
      <4> QED BY <4>1, <4>2
    <3> QED BY <3>1, <3>2, <3>3, <3>4, <2>3 DEF Reaches
  <2>8. Absent(s) => Absent(s)'
    BY <2>3, <1>6 DEF Absent, readerVars
  <2>9. ASSUME NEW G \in SUBSET S, Leads(s, G)
        PROVE  \E H \in SUBSET (S \cup {n}) : Leads(s, H)'
    <3> DEFINE H == IF old \in G THEN G \cup {n} ELSE G
    <3>1. H \in SUBSET (S \cup {n}) /\ cur'[s] \in H
      BY <2>9, <1>6 DEF Leads, readerVars
    <3>2. ASSUME NEW m \in H
          PROVE  uidOf'[m] = uid'[s] \/ NextOf(m)' \in H
      <4>1. CASE m = n
        <5>1. old \in G
          BY <4>1, <2>6, <3>2
        <5>2. CASE u = w
          BY <5>2, <4>1, <2>3, <1>8
        <5>3. CASE u # w
          <6>1. NextOf(old) \in G
            BY <5>1, <5>3, <2>2, <2>9, <1>1, <1>4 DEF Leads
          <6> QED BY <6>1, <5>1, <4>1, <1>1, <1>4 DEF Relinked
        <5> QED BY <5>2, <5>3
      <4>2. CASE m # n
        <5>1. m \in G /\ m \in Nodes
          BY <4>2, <3>2
        <5>2. uidOf[m] = w \/ NextOf(m) \in G
          BY <5>1, <2>2, <2>9 DEF Leads
        <5>3. NextOf(m)' = IF m \in Linked /\ NextOf(m) = old THEN n ELSE NextOf(m)
          BY <5>1, <4>2, <1>1, <1>4 DEF Relinked
        <5> QED BY <5>1, <5>2, <5>3, <4>2, <2>3, <1>8
      <4> QED BY <4>1, <4>2
    <3> HIDE DEF H
    <3>3. Leads(s, H)'
      BY <3>1, <3>2 DEF Leads
    <3> QED BY <3>1, <3>3
  <2>10. S \cup {n} \in SUBSET Nodes
    OBVIOUS
  <2>11. rpc'[s] = "walk" => Absent(s)' \/ \E H \in SUBSET (S \cup {n}) : Leads(s, H)'
    BY <2>5, <2>8, <2>9, <1>6 DEF readerVars
  <2>12. GrantFor(uid[s])' \in seen'[s] /\ uid'[s] \in Uids
    BY <2>3, <2>4
  <2> QED BY <2>7, <2>10, <2>11, <2>12 DEF SectionOK
<1>12. \A s \in Readers \ InSection : seen'[s] = seen[s]
  BY <1>6 DEF Observe
<1>13. \A m \in Nodes : mem[m] # "free" => uidOf'[m] = uidOf[m] /\ grantOf'[m] = grantOf[m]
  BY <1>6, <1>8
<1> QED BY <1>1, <1>6, <1>7, <1>9, <1>10, <1>11, <1>12, <1>13, WriterFrame

LEMMA AddStep ==
  ASSUME RcuInv, NEW u \in Uids, NEW g \in Grants, NEW n \in Nodes, Add(u, g, n)
  PROVE  RcuInv'
<1>1. /\ ListTypes' /\ ListOK'
      /\ n \notin Linked
      /\ Linked' = Linked \cup {n}
      /\ \A m \in Nodes : NextOf(m)' = IF m = n THEN First ELSE NextOf(m)
      /\ First' = n
  <2>1. wpc # "prune_put"
    BY DEF Add
  <2> QED BY <2>1, AddShape DEF RcuInv
<1>2. ListFacts /\ UsedFacts
  BY ListLemma, UsedLemma DEF RcuInv, TypeOK, ListTypes
<1>3. ListFacts'
  <2>1. (ListTypes /\ ListOK => ListFacts)'
    BY ListLemma, PTL
  <2> QED BY <2>1, <1>1
<1>6. /\ wpc = "idle" /\ mem[n] = "free" /\ Observe
      /\ mem' = [mem EXCEPT ![n] = "used"] /\ ref' = [ref EXCEPT ![n] = 1]
      /\ uidOf' = [uidOf EXCEPT ![n] = u] /\ grantOf' = [grantOf EXCEPT ![n] = g]
      /\ allow_list_count' = allow_list_count + 1
      /\ UNCHANGED <<stale, grace, writerVars, readerVars>>
  BY DEF Add, Allocate
<1>7. TypeOK'
  <2>1. seen' \in [Readers -> SUBSET (Grants \cup {"none"})]
    BY <1>1, <1>6, ObserveType DEF RcuInv, TypeOK, readerVars
  <2>2. ref' \in [Nodes -> Nat] /\ mem' \in [Nodes -> {"free", "used", "dying"}]
        /\ allow_list_count' \in Nat
    BY <1>6 DEF RcuInv, TypeOK
  <2> QED BY <2>1, <2>2, <1>1, <1>6 DEF RcuInv, TypeOK, ListTypes, readerVars, writerVars
<1>8. \A m \in Nodes : /\ mem'[m] = IF m = n THEN "used" ELSE mem[m]
                       /\ ref'[m] = IF m = n THEN 1 ELSE ref[m]
                       /\ uidOf'[m] = IF m = n THEN u ELSE uidOf[m]
                       /\ grantOf'[m] = IF m = n THEN g ELSE grantOf[m]
  BY <1>6 DEF RcuInv, TypeOK
<1>9. FilledIn' /\ WriterOK'
  BY <1>6, <1>8 DEF RcuInv, FilledIn, WriterOK, writerVars
<1>10. RefcountsExact'
  <2>1. \A m \in Nodes : Holders(m)' = Holders(m)
    BY <1>6, SameReaders
  <2>2. \A m \in Nodes : ~OwnedByWriter(m) /\ ~OwnedByWriter(m)'
    BY <1>6 DEF OwnedByWriter, writerVars
  <2>4. ASSUME NEW m \in Nodes
        PROVE  /\ mem[m] = "used" <=> ref[m] > 0
               /\ Cardinality(Holders(m)) \in Nat
               /\ ref[m] = Cardinality(Holders(m)) + (IF m \in Linked THEN 1 ELSE 0)
               /\ ref[m] \in Nat
    BY <2>2, HoldersFinite DEF RcuInv, RefcountsExact, TypeOK
  <2>5. ASSUME NEW m \in Nodes
        PROVE  /\ (mem[m] = "used" <=> ref[m] > 0)'
               /\ (ref[m] = Cardinality(Holders(m))
                            + (IF m \in Linked \/ OwnedByWriter(m) THEN 1 ELSE 0))'
    <3>1. CASE m = n
      BY <3>1, <2>1, <2>4, <1>1, <1>6, <1>8
    <3>2. CASE m # n
      BY <3>2, <2>1, <2>2, <2>4, <1>1, <1>8
    <3> QED BY <3>1, <3>2
  <2> QED BY <2>5 DEF RefcountsExact
<1>11. ASSUME NEW s \in InSection
       PROVE  SectionOK(s)'
  <2>1. s \in Readers /\ SectionOK(s)
    BY DEF InSection, RcuInv, SectionInv
  <2>2. PICK w : w = uid[s]
    OBVIOUS
  <2>3. w \in Uids /\ seen'[s] = seen[s] \cup {GrantFor(w)'} /\ uid'[s] = w
    BY <2>1, <2>2, <1>6, ObserveLemma DEF readerVars, SectionOK
  <2>4. GrantFor(uid[s])' = GrantFor(w)'
    BY <2>3 DEF GrantFor
  <2>5. PICK S \in SUBSET Nodes :
           /\ Reaches(s, S)
           /\ rpc[s] = "walk" => Absent(s) \/ \E G \in SUBSET S : Leads(s, G)
    BY <2>1 DEF SectionOK
  <2>6. n \notin S /\ First \in S \cup {Nil}
    BY <2>5, <1>2, <1>6 DEF Reaches, Guarded, ListFacts, NextFacts
  <2>7. Reaches(s, S \cup {n})'
    <3>1. Linked' \subseteq S \cup {n} /\ cur'[s] \in (S \cup {n}) \cup {Nil}
      BY <2>5, <1>1, <1>6 DEF Reaches, readerVars
    <3>2. \A m \in S \cup {n} : NextOf(m)' \in (S \cup {n}) \cup {Nil}
      BY <2>5, <2>6, <1>1 DEF Reaches
    <3>3. \A m \in S \cup {n} : Guarded(s, m)'
      BY <2>5, <1>6, <1>8 DEF Reaches, Guarded
    <3>4. ASSUME NEW m \in S \cup {n}, uidOf'[m] = w
          PROVE  grantOf'[m] \in seen'[s]
      <4>1. CASE m = n
        <5>1. n \in Linked'
          BY <1>1
        <5>2. GrantFor(w)' = grantOf'[n]
          BY <4>1, <5>1, <3>4, <1>3 DEF ListFacts, GrantFacts
        <5> QED BY <4>1, <5>2, <2>3
      <4>2. CASE m # n
        BY <4>2, <3>4, <2>2, <2>3, <2>5, <1>8 DEF Reaches
      <4> QED BY <4>1, <4>2
    <3> QED BY <3>1, <3>2, <3>3, <3>4, <2>3 DEF Reaches
  <2>8. Absent(s) => Absent(s)'
    BY <2>3, <1>6 DEF Absent, readerVars
  <2>9. ASSUME NEW G \in SUBSET S, Leads(s, G)
        PROVE  Leads(s, G)'
    <3>1. ASSUME NEW m \in G
          PROVE  uidOf'[m] = uid'[s] \/ NextOf(m)' \in G
      BY <2>2, <2>3, <2>6, <2>9, <1>1, <1>8 DEF Leads
    <3> QED BY <3>1, <2>9, <1>6 DEF Leads, readerVars
  <2>10. S \cup {n} \in SUBSET Nodes /\ \A G \in SUBSET S : G \in SUBSET (S \cup {n})
    OBVIOUS
  <2>11. rpc'[s] = "walk" => Absent(s)' \/ \E H \in SUBSET (S \cup {n}) : Leads(s, H)'
    BY <2>5, <2>8, <2>9, <2>10, <1>6 DEF readerVars
  <2>12. GrantFor(uid[s])' \in seen'[s] /\ uid'[s] \in Uids
    BY <2>3, <2>4
  <2> QED BY <2>7, <2>10, <2>11, <2>12 DEF SectionOK
<1>12. \A s \in Readers \ InSection : seen'[s] = seen[s]
  BY <1>6 DEF Observe
<1>13. \A m \in Nodes : mem[m] # "free" => uidOf'[m] = uidOf[m] /\ grantOf'[m] = grantOf[m]
  BY <1>6, <1>8
<1> QED BY <1>1, <1>6, <1>7, <1>9, <1>10, <1>11, <1>12, <1>13, WriterFrame

LEMMA DeleteStep ==
  ASSUME RcuInv, PruneDelete
  PROVE  RcuInv'
<1>1. /\ ListTypes' /\ ListOK'
      /\ victim \in Linked /\ victim' = victim
      /\ Linked' = Linked \ {victim}
      /\ Bypassed(victim)
      /\ stale'[victim] = NextOf(victim)
      /\ stale'[victim] \in Linked' \cup {Nil}
  BY DeleteShape DEF RcuInv
<1>2. ListFacts
  BY ListLemma DEF RcuInv, TypeOK, ListTypes
<1>3. ListFacts'
  <2>1. (ListTypes /\ ListOK => ListFacts)'
    BY ListLemma, PTL
  <2> QED BY <2>1, <1>1
<1>4. PICK old \in Linked : old = victim
  BY <1>1
<1>5. old \in Nodes
  BY <1>2 DEF ListFacts, PosFacts
<1>6. /\ wpc = "prune" /\ wpc' = "prune_put" /\ Observe
      /\ UNCHANGED <<uidOf, grantOf, allow_list_count, ref, mem, grace, keep, readerVars>>
  BY DEF PruneDelete, memVars
<1>7. TypeOK'
  <2>1. seen' \in [Readers -> SUBSET (Grants \cup {"none"})]
    BY <1>1, <1>6, ObserveType DEF RcuInv, TypeOK, readerVars
  <2> QED BY <2>1, <1>1, <1>6 DEF RcuInv, TypeOK, ListTypes, readerVars
<1>8. FilledIn' /\ WriterOK'
  BY <1>1, <1>4, <1>5, <1>6 DEF RcuInv, FilledIn, WriterOK
<1>9. RefcountsExact'
  <2>1. \A m \in Nodes : Holders(m)' = Holders(m)
    BY <1>6, SameReaders
  <2>2. \A m \in Nodes : (OwnedByWriter(m)' <=> m = old) /\ ~OwnedByWriter(m)
    BY <1>1, <1>4, <1>6 DEF OwnedByWriter
  <2>3. \A m \in Nodes : (m \in Linked \/ OwnedByWriter(m))' <=> (m \in Linked \/ OwnedByWriter(m))
    BY <2>2, <1>1, <1>4
  <2> QED BY <2>1, <2>3, <1>6, SameReferences DEF RcuInv
<1>10. ASSUME NEW s \in InSection
       PROVE  SectionOK(s)'
  <2>1. s \in Readers /\ SectionOK(s)
    BY DEF InSection, RcuInv, SectionInv
  <2>2. PICK w : w = uid[s]
    OBVIOUS
  <2>3. w \in Uids /\ seen'[s] = seen[s] \cup {GrantFor(w)'} /\ uid'[s] = w
    BY <2>1, <2>2, <1>6, ObserveLemma DEF readerVars, SectionOK
  <2>4. GrantFor(uid[s])' = GrantFor(w)'
    BY <2>3 DEF GrantFor
  <2>5. PICK S \in SUBSET Nodes :
           /\ Reaches(s, S)
           /\ rpc[s] = "walk" => Absent(s) \/ \E G \in SUBSET S : Leads(s, G)
    BY <2>1 DEF SectionOK
  <2>6. old \in S /\ NextOf(old) \in S \cup {Nil}
    BY <2>5 DEF Reaches
  <2>7. \A m \in S : NextOf(m)' = IF m \in Linked /\ NextOf(m) = old THEN NextOf(old)
                                  ELSE NextOf(m)
    BY <1>1, <1>4 DEF Bypassed
  <2>8. Reaches(s, S)'
    <3>1. Linked' \subseteq S /\ cur'[s] \in S \cup {Nil}
      BY <2>5, <1>1, <1>6 DEF Reaches, readerVars
    <3>2. \A m \in S : NextOf(m)' \in S \cup {Nil}
      BY <2>5, <2>6, <2>7 DEF Reaches
    <3>3. \A m \in S : Guarded(s, m)'
      BY <2>5, <1>6 DEF Reaches, Guarded
    <3>4. \A m \in S : uidOf'[m] = w => grantOf'[m] \in seen'[s]
      BY <2>2, <2>3, <2>5, <1>6 DEF Reaches
    <3> QED BY <3>1, <3>2, <3>3, <3>4, <2>3 DEF Reaches
  <2>9. Absent(s) => Absent(s)'
    BY <2>3, <1>6 DEF Absent, readerVars
  <2>10. uidOf[old] = w => Absent(s)'
    <3> SUFFICES ASSUME uidOf[old] = w PROVE Absent(s)'
      OBVIOUS
    <3>1. \A m \in Linked' : uidOf'[m] # w
      BY <1>1, <1>2, <1>4, <1>6 DEF ListFacts, GrantFacts
    <3>2. GrantFor(w)' = "none"
      BY <3>1, <1>3 DEF ListFacts, GrantFacts
    <3> QED BY <3>2, <2>3 DEF Absent
  <2>11. ASSUME NEW G \in SUBSET S, Leads(s, G), uidOf[old] # w
         PROVE  Leads(s, G)'
    <3>1. ASSUME NEW m \in G
          PROVE  uidOf'[m] = uid'[s] \/ NextOf(m)' \in G
      <4>1. uidOf[m] = w \/ NextOf(m) \in G
        BY <2>2, <2>11 DEF Leads
      <4>2. CASE uidOf[m] = w
        BY <4>2, <2>3, <1>6
      <4>3. CASE NextOf(m) \in G /\ NextOf(m) # old
        BY <4>3, <2>7
      <4>4. CASE NextOf(m) \in G /\ NextOf(m) = old
        <5>1. NextOf(old) \in G
          BY <4>4, <2>2, <2>11 DEF Leads
        <5> QED BY <4>4, <5>1, <2>7
      <4> QED BY <4>1, <4>2, <4>3, <4>4
    <3> QED BY <3>1, <2>11, <1>6 DEF Leads, readerVars
  <2>12. rpc'[s] = "walk" => Absent(s)' \/ \E H \in SUBSET S : Leads(s, H)'
    BY <2>5, <2>9, <2>10, <2>11, <1>6 DEF readerVars
  <2>13. GrantFor(uid[s])' \in seen'[s] /\ uid'[s] \in Uids
    BY <2>3, <2>4
  <2> QED BY <2>8, <2>12, <2>13 DEF SectionOK
<1>11. \A s \in Readers \ InSection : seen'[s] = seen[s]
  BY <1>6 DEF Observe
<1> QED BY <1>1, <1>6, <1>7, <1>8, <1>9, <1>10, <1>11, WriterFrame

LEMMA ReclaimStep ==
  ASSUME RcuInv, NEW n \in Nodes, Reclaim(n)
  PROVE  RcuInv'
<1>1. ListFacts /\ UsedFacts
  BY ListLemma, UsedLemma DEF RcuInv, TypeOK, ListTypes
<1>2. /\ mem[n] = "dying" /\ grace[n] = {} /\ mem' = [mem EXCEPT ![n] = "free"]
      /\ UNCHANGED <<chain, allow_list_count, ref, grace, writerVars, readerVars, seen>>
      /\ \A m \in Nodes \ {n} :
            stale'[m] = stale[m] /\ uidOf'[m] = uidOf[m] /\ grantOf'[m] = grantOf[m]
            /\ mem'[m] = mem[m]
      /\ mem'[n] = "free"
  BY DEF Reclaim, RcuInv, TypeOK
<1>3. Linked' = Linked /\ n \notin Linked /\ \A m \in Linked : m \in Nodes \ {n}
  BY <1>1, <1>2 DEF Linked, UsedFacts, ListFacts, PosFacts
<1>4. TypeOK'
  BY DEF Reclaim, RcuInv, TypeOK, writerVars, readerVars
<1>5. FilledIn'
  BY <1>2 DEF RcuInv, FilledIn
<1>6. ListOK'
  <2>1. \A i \in 1..Len(chain) : uidOf'[chain[i]] = uidOf[chain[i]]
    BY <1>1, <1>2, <1>3 DEF ListFacts, PosFacts
  <2> QED BY <2>1, <1>2 DEF RcuInv, ListOK, writerVars
<1>7. ~OwnedByWriter(n)
  BY <1>1, <1>2 DEF UsedFacts
<1>8. WriterOK'
  BY <1>2, <1>3, <1>7 DEF RcuInv, WriterOK, OwnedByWriter, writerVars
<1>9. RefcountsExact'
  <2>1. \A m \in Nodes : Holders(m)' = Holders(m)
    BY <1>2, SameReaders
  <2>2. \A m \in Nodes : OwnedByWriter(m)' <=> OwnedByWriter(m)
    BY <1>2 DEF OwnedByWriter, writerVars
  <2>3. \A m \in Nodes : mem'[m] = "used" <=> mem[m] = "used"
    BY <1>2
  <2> QED BY <2>1, <2>2, <2>3, <1>2, <1>3 DEF RcuInv, RefcountsExact
<1>10. ListFacts'
  <2>1. (ListTypes /\ ListOK => ListFacts)'
    BY ListLemma, PTL
  <2>2. ListTypes'
    BY <1>4 DEF TypeOK, ListTypes
  <2> QED BY <2>1, <2>2, <1>6
<1>11. \A u : GrantFor(u)' = GrantFor(u)
  <2> TAKE u
  <2>1. CASE \A m \in Linked : uidOf[m] # u
    <3>1. \A m \in Linked' : uidOf'[m] # u
      BY <2>1, <1>2, <1>3
    <3>2. GrantFor(u) = "none" /\ GrantFor(u)' = "none"
      BY <2>1, <3>1, <1>1, <1>10 DEF ListFacts, GrantFacts
    <3> QED BY <3>2
  <2>2. CASE \E m \in Linked : uidOf[m] = u
    <3>1. PICK m \in Linked : uidOf[m] = u
      BY <2>2
    <3>2. m \in Linked' /\ uidOf'[m] = u /\ grantOf'[m] = grantOf[m]
      BY <3>1, <1>2, <1>3
    <3>3. GrantFor(u) = grantOf[m] /\ GrantFor(u)' = grantOf'[m]
      BY <3>1, <3>2, <1>1, <1>10 DEF ListFacts, GrantFacts
    <3> QED BY <3>2, <3>3
  <2> QED BY <2>1, <2>2
<1>12. \A m \in Nodes \ {n} : NextOf(m)' = NextOf(m)
  <2> TAKE m \in Nodes \ {n}
  <2>1. Pos(m)' = Pos(m)
    BY <1>2 DEF Pos
  <2> QED BY <2>1, <1>2, <1>3 DEF NextOf
<1>13. ASSUME NEW s \in InSection
       PROVE  SectionOK(s)'
  <2>1. s \in Readers /\ SectionOK(s)
    BY DEF InSection, RcuInv, SectionInv
  <2>2. PICK w : w = uid[s]
    OBVIOUS
  <2>3. GrantFor(uid[s])' = GrantFor(w)' /\ GrantFor(w) = GrantFor(uid[s])
    BY <2>2, <1>2, <1>3 DEF GrantFor, readerVars
  <2>4. GrantFor(uid[s])' \in seen'[s] /\ uid'[s] \in Uids
    BY <2>1, <2>2, <2>3, <1>2, <1>11 DEF SectionOK, readerVars
  <2>5. PICK S \in SUBSET Nodes :
           /\ Reaches(s, S)
           /\ rpc[s] = "walk" => Absent(s) \/ \E G \in SUBSET S : Leads(s, G)
    BY <2>1 DEF SectionOK
  <2>6. n \notin S
    BY <2>5, <1>2 DEF Reaches, Guarded
  <2>7. \A m \in S : NextOf(m)' = NextOf(m) /\ uidOf'[m] = uidOf[m] /\ grantOf'[m] = grantOf[m]
                     /\ (Guarded(s, m) => Guarded(s, m)')
    BY <2>6, <1>2, <1>12 DEF Guarded
  <2>8. Reaches(s, S)'
    BY <2>5, <2>7, <1>2, <1>3 DEF Reaches, readerVars
  <2>9. Absent(s) => Absent(s)'
    BY <1>2 DEF Absent, readerVars
  <2>10. \A G \in SUBSET S : Leads(s, G) => Leads(s, G)'
    BY <2>7, <1>2 DEF Leads, readerVars
  <2>11. rpc'[s] = "walk" => Absent(s)' \/ \E G \in SUBSET S : Leads(s, G)'
    BY <2>5, <2>9, <2>10, <1>2 DEF readerVars
  <2> QED BY <2>4, <2>8, <2>11 DEF SectionOK
<1>14. \A m \in Nodes : mem[m] = "free" \/ m = n \/ (uidOf'[m] = uidOf[m] /\ grantOf'[m] = grantOf[m])
  BY <1>2
<1>15. \A s \in InSection : cur[s] # n
  <2> TAKE s \in InSection
  <2>1. PICK S \in SUBSET Nodes : Reaches(s, S)
    BY DEF RcuInv, SectionInv, SectionOK
  <2>2. n \notin S /\ n # Nil
    BY <2>1, <1>2, AllowlistAssumption DEF Reaches, Guarded, AllowlistAssumption
  <2> QED BY <2>1, <2>2 DEF Reaches
<1>16. GetInv' /\ SectionInv'
  <2>1. InSection' = InSection
    BY <1>2 DEF InSection, readerVars
  <2>2. SectionInv'
    BY <2>1, <1>13 DEF SectionInv
  <2>3. ASSUME NEW s \in Readers
        PROVE  GetOK(s)'
    <3>1. GetOK(s)
      BY DEF RcuInv, GetInv
    <3>2. rpc[s] = "get" => cur[s] \in Nodes \ {n}
      BY <3>1, <1>15 DEF InSection, GetOK
    <3> QED BY <3>1, <3>2, <1>2 DEF GetOK, readerVars
  <2> QED BY <2>2, <2>3 DEF GetInv
<1>17. LookupSeesSomeState'
  BY <1>2 DEF RcuInv, LookupSeesSomeState, RightAnswer, readerVars
<1> QED BY <1>4, <1>5, <1>6, <1>8, <1>9, <1>16, <1>17 DEF RcuInv

-----------------------------------------------------------------------------
(* The invariant *)

LEMMA RcuInit == Init => RcuInv
<1> SUFFICES ASSUME Init PROVE RcuInv
  OBVIOUS
<1>1. Len(chain) = 0 /\ Linked = {}
  BY DEF Init, Linked
<1>2. TypeOK
  BY DEF Init, TypeOK, Ops
<1>3. \A n \in Nodes : Cardinality(Holders(n)) = 0
  <2> TAKE n \in Nodes
  <2>1. Holders(n) = {}
    BY DEF Init, Holders
  <2> QED BY <2>1, FS_EmptySet
<1>4. RefcountsExact
  BY <1>1, <1>3 DEF RefcountsExact, Init, OwnedByWriter
<1>5. FilledIn /\ ListOK /\ WriterOK
  BY <1>1, AllowlistAssumption DEF FilledIn, ListOK, WriterOK, Init, AllowlistAssumption
<1>6. SectionInv /\ GetInv /\ LookupSeesSomeState
  BY DEF SectionInv, InSection, GetInv, GetOK, LookupSeesSomeState, Init
<1> QED BY <1>2, <1>4, <1>5, <1>6 DEF RcuInv

LEMMA RcuStep == RcuInv /\ [Next]_vars => RcuInv'
<1> SUFFICES ASSUME RcuInv, [Next]_vars PROVE RcuInv'
  OBVIOUS
<1>1. CASE WriterNext
  <2>1. CASE SetProfile
    BY <2>1, ReplaceStep, AddStep DEF SetProfile
  <2> QED BY <1>1, <2>1, PutReplacedStep, PruneWalkStep, DeleteStep, PrunePutStep DEF WriterNext
<1>2. ASSUME NEW r \in Readers, ReaderNext(r)
      PROVE  RcuInv'
  BY <1>2, StartStep, NextStep, FoundStep, MissedStep, RefStep, DoneStep, PutStep DEF ReaderNext
<1>3. ASSUME NEW n \in Nodes, Reclaim(n)
      PROVE  RcuInv'
  BY <1>3, ReclaimStep
<1>4. CASE UNCHANGED vars
  <2>1. UNCHANGED <<chain, stale, uidOf, grantOf, readerVars, seen, memVars, writerVars, allow_list_count>>
    BY <1>4 DEF vars, listVars
  <2>2. Linked' = Linked /\ TypeOK'
    BY <2>1 DEF Linked, RcuInv, TypeOK, readerVars, memVars, writerVars
  <2>3. RefcountsExact'
    BY <2>1, <2>2, SameReaders, SameReferences DEF RcuInv, memVars, writerVars, OwnedByWriter
  <2>4. WriterOK'
    BY <2>1, <2>2 DEF RcuInv, WriterOK, writerVars
  <2> QED BY <2>1, <2>2, <2>3, <2>4, QuietFrame DEF RcuInv, ListOK, Guarded, memVars, writerVars
<1> QED BY <1>1, <1>2, <1>3, <1>4 DEF Next

LEMMA RcuInvariant == Spec => []RcuInv
BY RcuInit, RcuStep, PTL DEF Spec

(* No lookup dereferences freed memory, each count equals the references   *)
(* that exist, and list and counter agree: what ksu_set_app_profile(),     *)
(* ksu_prune_allowlist(), put_perm_data() and the three lookups keep up    *)
(* for any number of readers and nodes and any limit of the list.          *)
THEOREM MemoryCorrect == Spec => []MemoryExact
<1>1. ASSUME RcuInv
      PROVE  NoUseAfterFree
  <2> SUFFICES ASSUME NEW r \in Readers, rpc[r] \in {"walk", "get", "hold"}, cur[r] # Nil
               PROVE  mem[cur[r]] # "free"
    BY DEF NoUseAfterFree
  <2>1. CASE rpc[r] = "hold"
    BY <1>1, <2>1, UsedLemma DEF RcuInv, UsedFacts, GetInv, GetOK
  <2>2. CASE r \in InSection
    BY <1>1, <2>2, StandsOnMemory
  <2> QED BY <2>1, <2>2 DEF InSection
<1>2. ASSUME RcuInv
      PROVE  ListAndCountAgree
  <2>1. ListFacts
    BY <1>2, ListLemma DEF RcuInv, TypeOK, ListTypes
  <2> DEFINE U == {uidOf[n] : n \in Linked}
             f == [i \in 1..Len(chain) |-> uidOf[chain[i]]]
  <2>2. Len(chain) \in Nat
    BY <2>1 DEF ListFacts, PosFacts
  <2>3. f \in Bijection(1..Len(chain), U)
    <3>1. f \in [1..Len(chain) -> U]
      BY <2>1 DEF ListFacts, PosFacts
    <3>2. \A a, b \in 1..Len(chain) : f[a] = f[b] => a = b
      BY <1>2 DEF RcuInv, ListOK
    <3>3. \A u \in U : \E i \in 1..Len(chain) : f[i] = u
      BY <2>1 DEF ListFacts, PosFacts
    <3>4. f \in Injection(1..Len(chain), U)
      BY <3>1, <3>2 DEF Injection, IsInjective
    <3>5. f \in Surjection(1..Len(chain), U)
      BY <3>1, <3>3 DEF Surjection
    <3> QED BY <3>4, <3>5 DEF Bijection
  <2>4. IsFiniteSet(1..Len(chain)) /\ Cardinality(1..Len(chain)) = Len(chain)
    <3> HIDE DEF f, U
    <3>1. PICK k \in Nat : k = Len(chain)
      BY <2>2
    <3>2. IsFiniteSet(1..k) /\ Cardinality(1..k) = k
      BY FS_Interval
    <3> QED BY <3>1, <3>2
  <2>5. Cardinality(U) = Len(chain)
    <3> HIDE DEF f, U
    <3>1. ExistsBijection(1..Len(chain), U)
      BY <2>3 DEF ExistsBijection
    <3> QED BY <2>4, <3>1, FS_Bijection
  <2> QED BY <1>2, <2>5 DEF RcuInv, ListOK, ListAndCountAgree
<1>3. RcuInv => MemoryExact
  BY <1>1, <1>2 DEF RcuInv, MemoryExact
<1> QED BY <1>3, RcuInvariant, PTL

(* Every lookup answers with a grant its uid had while the lookup ran,     *)
(* whatever replaces, additions and prunes it overlaps with: the lookups   *)
(* are linearizable although they take no lock of the writer's.            *)
THEOREM LookupCorrect == Spec => []LookupSeesSomeState
<1>1. RcuInv => LookupSeesSomeState
  BY DEF RcuInv
<1> QED BY <1>1, RcuInvariant, PTL
=============================================================================
