----------------------- MODULE TrustedKnowledgeProofs -----------------------
(* Theorems about TrustedKnowledge, for every set of items, sources,         *)
(* versions and permission levels and every bound on source changes.         *)
EXTENDS TrustedKnowledge, TLAPS

-----------------------------------------------------------------------------
(* The permission order *)

LEMMA StrictestIs ==
    ASSUME NEW S \in SUBSET PermissionLevels, S # {}
    PROVE  /\ Strictest(S) \in S
           /\ \A q \in S : ~Broader(Strictest(S), q)
<1>1. \E p \in S : \A q \in S : ~Broader(p, q)
  <2>1. CASE "restricted" \in S
    BY <2>1 DEF PermissionLevels, Broader, Rank
  <2>2. CASE "restricted" \notin S /\ "internal" \in S
    BY <2>2 DEF PermissionLevels, Broader, Rank
  <2>3. CASE S = {"public"}
    BY <2>3 DEF Broader, Rank
  <2> QED BY <2>1, <2>2, <2>3 DEF PermissionLevels
<1> QED BY <1>1 DEF Strictest

LEMMA BroaderOrder ==
    /\ \A p \in PermissionLevels : ~Broader(p, p)
    /\ \A p, q, r \in PermissionLevels :
        ~Broader(p, q) /\ ~Broader(q, r) => ~Broader(p, r)
    /\ \A p, q \in PermissionLevels :
        ~Broader(p, q) /\ ~Broader(q, p) => p = q
BY DEF PermissionLevels, Broader, Rank

-----------------------------------------------------------------------------
(* Type correctness.  That a knowledge row or a link never lacks its         *)
(* permission rests on how items, links and rows depend on each other.       *)

(* An item that exists has a permission. *)
ItemsJudged ==
    \A i \in Items :
        item[i].status # "none" => item[i].permission \in PermissionLevels

(* A link is of an approved or revoked item, to a row that exists. *)
LinksAnchored ==
    \A i \in Items : link[i] # None =>
        /\ item[i].status \in {"approved", "revoked"}
        /\ target[link[i].target].status # "none"

(* An automatic approval has its link. *)
AutoLinked ==
    \A i \in Items :
        item[i].status \in {"approved", "revoked"}
            /\ item[i].by = "auto_policy"
        => link[i] # None

(* Knowledge is of the item a reviewer approved. *)
TargetsApproved ==
    \A k \in Items : target[k].status # "none" =>
        item[k].status = "approved" /\ item[k].by = "human"

(* A pass works on automatic approvals. *)
PassAnchored ==
    /\ \A i \in recon.todo : link[i] # None
    /\ recon.pc = "revoking" => recon.item \in recon.todo

TypeInv == TypeOK /\ ItemsJudged /\ LinksAnchored /\ AutoLinked
            /\ TargetsApproved /\ PassAnchored

LEMMA InitType == Init => TypeInv
<1> SUFFICES ASSUME Init PROVE TypeInv
  OBVIOUS
<1>1. source \in [Sources -> SourceType] /\ changes \in 0..MaxChanges
  BY LevelsAssumption, ChangesAssumption DEF Init, SourceType
<1>2. item \in [Items -> ItemType]
  BY DEF Init, NoItem, ItemType
<1>3. target \in [Items -> TargetType]
  BY DEF Init, NoTarget, TargetType
<1>4. /\ link \in [Items -> LinkType \cup {None}]
      /\ tombstone \subseteq Items /\ critical \subseteq Items
      /\ fingerprint \in [Items -> PermissionLevels \cup {None}]
      /\ projection \in [ready : BOOLEAN, rebuilding : BOOLEAN]
  BY DEF Init
<1>5. recon \in PassType /\ PassAnchored
  BY DEF Init, IdlePass, PassType, PassAnchored
<1>6. ItemsJudged /\ LinksAnchored /\ AutoLinked /\ TargetsApproved
  BY DEF Init, NoItem, NoTarget, ItemsJudged, LinksAnchored, AutoLinked,
         TargetsApproved
<1> QED BY <1>1, <1>2, <1>3, <1>4, <1>5, <1>6 DEF TypeInv, TypeOK

(* The row updates the actions are built from keep the rows well-typed. *)

LEMMA ResolvedType ==
    ASSUME item \in [Items -> ItemType], NEW i \in Items,
           NEW st \in {"approved", "rejected", "needs_more_evidence",
                       "revoked"},
           NEW by \in {"human", "auto_policy"}
    PROVE  Resolved(i, st, by) \in [Items -> ItemType]
<1> DEFINE r == [item[i] EXCEPT !.status = st, !.by = by]
<1>1. item[i] \in ItemType
  OBVIOUS
<1>2. r \in ItemType
  BY <1>1 DEF ItemType
<1>3. Resolved(i, st, by) = [item EXCEPT ![i] = r]
  BY DEF Resolved
<1> HIDE DEF r
<1> QED BY <1>2, <1>3

LEMMA ProjectEffectType ==
    ASSUME fingerprint \in [Items -> PermissionLevels \cup {None}],
           projection \in [ready : BOOLEAN, rebuilding : BOOLEAN],
           NEW k \in Items, NEW p \in PermissionLevels, ProjectEffect(k, p)
    PROVE  /\ fingerprint' \in [Items -> PermissionLevels \cup {None}]
           /\ projection' \in [ready : BOOLEAN, rebuilding : BOOLEAN]
BY DEF ProjectEffect, Demoted

LEMMA ExpectedType ==
    ASSUME target \in [Items -> TargetType]
    PROVE  Expected \in [Items -> PermissionLevels \cup {None}]
BY DEF Expected, TargetType

LEMMA RestType ==
    ASSUME recon \in PassType, recon.pc \in {"next", "revoking"},
           NEW i \in recon.todo
    PROVE  /\ Rest(i) \in PassType
           /\ Rest(i).todo \subseteq recon.todo
           /\ Rest(i).pc # "revoking"
<1>1. CASE recon.todo = {i}
  BY <1>1 DEF Rest, IdlePass, PassType
<1>2. CASE recon.todo # {i}
  <2>1. Rest(i) = [recon EXCEPT !.pc = "next", !.item = None,
                                !.todo = recon.todo \ {i}]
    BY <1>2 DEF Rest
  <2>2. /\ recon.source \in Sources
        /\ recon.todo \in SUBSET Items
        /\ recon = [pc |-> recon.pc, source |-> recon.source,
                    item |-> recon.item, todo |-> recon.todo]
    BY DEF PassType
  <2>3. Rest(i) = [pc |-> "next", source |-> recon.source, item |-> None,
                   todo |-> recon.todo \ {i}]
    BY <2>1, <2>2
  <2> QED BY <2>2, <2>3 DEF PassType
<1> QED BY <1>1, <1>2

(* The level a narrowing stores is one of the levels it narrows. *)
LEMMA NarrowedIs ==
    ASSUME TypeInv, NEW i \in Items, link[i] # None, NEW s \in Sources
    PROVE  /\ Narrowed(i, s) \in PermissionLevels
           /\ link[i] \in LinkType /\ link[i].target \in Items
           /\ target[link[i].target].permission \in PermissionLevels
           /\ ~Broader(Narrowed(i, s), target[link[i].target].permission)
<1>1. link[i] \in LinkType /\ link[i].target \in Items
  BY DEF TypeInv, TypeOK, LinkType
<1>2. target[link[i].target].permission \in PermissionLevels
  BY <1>1 DEF TypeInv, TypeOK, TargetType, LinksAnchored
<1>3. item[i].permission \in PermissionLevels
  BY DEF TypeInv, ItemsJudged, LinksAnchored
<1> DEFINE S == StoredPermissions(i) \cup {source[s].permission}
<1>4. S \in SUBSET PermissionLevels /\ target[link[i].target].permission \in S
  BY <1>1, <1>2, <1>3
     DEF StoredPermissions, LinkType, TypeInv, TypeOK, SourceType
<1>5. Narrowed(i, s) = Strictest(S)
  BY DEF Narrowed
<1> HIDE DEF S
<1> QED BY <1>1, <1>2, <1>4, <1>5, StrictestIs

(* A revocation, whoever asks for it. *)
LEMMA RevokeType ==
    ASSUME TypeInv, NEW i \in Items, RevokeEffect(i)
    PROVE  /\ item' \in [Items -> ItemType]
           /\ target' \in [Items -> TargetType]
           /\ link' \in [Items -> LinkType \cup {None}]
           /\ tombstone' \subseteq Items
           /\ fingerprint' \in [Items -> PermissionLevels \cup {None}]
           /\ projection' \in [ready : BOOLEAN, rebuilding : BOOLEAN]
           /\ ItemsJudged' /\ LinksAnchored' /\ AutoLinked'
           /\ TargetsApproved'
           /\ \A j \in Items : link[j] # None => link'[j] # None
<1> DEFINE k == link[i].target
<1> USE DEF TypeInv
<1>1. link[i] # None /\ link[i] \in LinkType /\ k \in Items
  BY DEF RevokeEffect, AutoLinked, TypeOK, LinkType
<1>2. target[k].status # "none" /\ target[k].permission \in PermissionLevels
  BY <1>1 DEF LinksAnchored, TypeOK, TargetType
<1>3. item' = [item EXCEPT ![i].status = "revoked"]
  BY DEF RevokeEffect
<1>4. item' \in [Items -> ItemType]
  <2> DEFINE n == [item[i] EXCEPT !.status = "revoked"]
  <2>1. item[i] \in ItemType
    BY DEF TypeOK
  <2>2. n \in ItemType
    BY <2>1 DEF ItemType
  <2>3. item' = [item EXCEPT ![i] = n]
    BY <1>3
  <2> HIDE DEF n
  <2> QED BY <2>2, <2>3 DEF TypeOK
<1>5. /\ link' = [link EXCEPT ![i].active = FALSE]
      /\ link'[i] \in LinkType /\ link'[i].target = k
      /\ link' \in [Items -> LinkType \cup {None}]
  BY <1>1 DEF RevokeEffect, TypeOK, LinkType
<1>6. \/ UNCHANGED <<target, tombstone, fingerprint, projection>>
      \/ /\ target' = [target EXCEPT ![k].status = "revoked"]
         /\ tombstone' = tombstone \cup {k}
         /\ fingerprint' = [fingerprint EXCEPT ![k] = None]
         /\ projection' = Demoted
  BY DEF RevokeEffect
<1>7. /\ target' \in [Items -> TargetType]
      /\ \A j \in Items : target'[j].status = "none"
                            <=> target[j].status = "none"
  BY <1>1, <1>2, <1>6, SMTT(30) DEF TypeOK, TargetType
<1>8. /\ tombstone' \subseteq Items
      /\ fingerprint' \in [Items -> PermissionLevels \cup {None}]
      /\ projection' \in [ready : BOOLEAN, rebuilding : BOOLEAN]
  BY <1>1, <1>6 DEF TypeOK, Demoted
<1>9. link'[i] # None /\ \A j \in Items \ {i} : link'[j] = link[j]
  BY <1>5, NoneAssumption DEF TypeOK, LinkType
<1>10. /\ item'[i].status = "revoked"
       /\ item'[i].permission = item[i].permission
       /\ item'[i].by = item[i].by
       /\ item[i].status = "approved" /\ item[i].by = "auto_policy"
       /\ \A j \in Items \ {i} : item'[j] = item[j]
  BY <1>3 DEF RevokeEffect, TypeOK, ItemType
<1>11. ItemsJudged'
  BY <1>10 DEF ItemsJudged
<1>12. LinksAnchored'
  <2> SUFFICES ASSUME NEW j \in Items, link'[j] # None
               PROVE  /\ item'[j].status \in {"approved", "revoked"}
                      /\ target'[link'[j].target].status # "none"
    BY DEF LinksAnchored
  <2>1. CASE j = i
    BY <1>1, <1>2, <1>5, <1>7, <1>10, <2>1
  <2>2. CASE j # i
    <3>1. link[j] \in LinkType /\ link'[j] = link[j]
      BY <1>9, <2>2 DEF TypeOK
    <3> QED BY <1>7, <1>10, <2>2, <3>1 DEF LinksAnchored, LinkType
  <2> QED BY <2>1, <2>2
<1>13. AutoLinked'
  BY <1>9, <1>10 DEF AutoLinked
<1>14. TargetsApproved'
  BY <1>7, <1>10 DEF TargetsApproved
<1> QED BY <1>4, <1>5, <1>7, <1>8, <1>9, <1>11, <1>12, <1>13, <1>14

(* What a pass still has to do stays about linked items. *)
LEMMA PassStep ==
    ASSUME TypeInv, \A j \in Items : link[j] # None => link'[j] # None,
           \/ recon' = recon
           \/ recon' = IdlePass
           \/ \E i \in recon.todo : /\ recon.pc \in {"next", "revoking"}
                                    /\ recon' = Rest(i)
    PROVE  recon' \in PassType /\ PassAnchored'
<1> USE DEF TypeInv
<1>1. CASE recon' = recon
  BY <1>1 DEF PassAnchored, TypeOK, PassType
<1>2. CASE recon' = IdlePass
  BY <1>2 DEF PassAnchored, IdlePass, PassType
<1>3. ASSUME NEW i \in recon.todo, recon.pc \in {"next", "revoking"},
             recon' = Rest(i)
      PROVE  recon' \in PassType /\ PassAnchored'
  <2>1. recon' \in PassType /\ recon'.todo \subseteq recon.todo
            /\ recon'.pc # "revoking"
    BY <1>3, RestType DEF TypeOK
  <2>2. recon.todo \subseteq Items
    BY DEF TypeOK, PassType
  <2> QED BY <2>1, <2>2 DEF PassAnchored
<1> QED BY <1>1, <1>2, <1>3

(* Citations of a draft. *)
LEMMA DraftType ==
    ASSUME TypeInv, NEW i \in Items, NEW c \in Citations, Draft(i, c)
    PROVE  /\ item' \in [Items -> ItemType]
           /\ item'[i].permission \in PermissionLevels
           /\ item'[i].by = None /\ item'[i].status = "pending_review"
<1> DEFINE cited == {c[n] : n \in DOMAIN c}
           levels == {source[s].permission : s \in cited}
           seen == [s \in Sources |-> IF s \in cited THEN source[s] ELSE None]
           p == Strictest(levels)
<1>1. PICK n \in 1..Cardinality(Sources) : c \in [1..n -> Sources]
  BY DEF Citations
<1>2. n \in Nat /\ 1 \in 1..n
  BY <1>1
<1>3. c \in Seq(Sources) /\ cited \subseteq Sources /\ c[1] \in cited
  BY <1>1, <1>2
<1>4. levels \in SUBSET PermissionLevels /\ levels # {}
  BY <1>3 DEF TypeInv, TypeOK, SourceType
<1>5. p \in PermissionLevels
  <2> HIDE DEF levels
  <2> QED BY <1>4, StrictestIs
<1>6. seen \in [Sources -> SourceType \cup {None}]
  BY <1>3 DEF TypeInv, TypeOK
<1>7. item' = [item EXCEPT ![i] =
            [status |-> "pending_review", c5 |-> TRUE, cites |-> c,
             seen |-> seen, permission |-> p, by |-> None]]
  BY Zenon DEF Draft
<1> HIDE DEF cited, levels, seen, p
<1> QED BY <1>3, <1>5, <1>6, <1>7 DEF TypeInv, TypeOK, ItemType

(* Only rows that nothing depends on are drafted or declined. *)
LEMMA UnlinkedItemStep ==
    ASSUME TypeInv, UNCHANGED <<target, link, recon>>, NEW i \in Items,
           item[i].status \in {"none", "pending_review"},
           item' \in [Items -> ItemType],
           \A j \in Items \ {i} : item'[j] = item[j],
           item'[i].permission \in PermissionLevels,
           ~(item'[i].status \in {"approved", "revoked"}
                /\ item'[i].by = "auto_policy")
    PROVE  ItemsJudged' /\ LinksAnchored' /\ AutoLinked' /\ TargetsApproved'
            /\ PassAnchored'
<1> USE DEF TypeInv
<1>1. link[i] = None /\ target[i].status = "none"
  BY DEF LinksAnchored, TargetsApproved
<1>2. ItemsJudged'
  BY DEF ItemsJudged
<1>3. LinksAnchored' /\ AutoLinked' /\ TargetsApproved'
  BY <1>1 DEF LinksAnchored, AutoLinked, TargetsApproved
<1>4. PassAnchored'
  BY DEF PassAnchored
<1> QED BY <1>2, <1>3, <1>4

(* A reviewer's approval creates row i, with a link or (legacy) without. *)
LEMMA HumanApprovalStep ==
    ASSUME TypeInv, NEW i \in Items, item[i].status = "pending_review",
           item' = Resolved(i, "approved", "human"),
           target' = [target EXCEPT ![i] = NewTarget(i)],
           \/ link' = [link EXCEPT ![i] = NewLink(i, i)]
           \/ link' = link,
           recon' = recon
    PROVE  /\ item' \in [Items -> ItemType]
           /\ target' \in [Items -> TargetType]
           /\ link' \in [Items -> LinkType \cup {None}]
           /\ ItemsJudged' /\ LinksAnchored' /\ AutoLinked'
           /\ TargetsApproved' /\ PassAnchored'
<1> USE DEF TypeInv
<1>1. item[i].permission \in PermissionLevels
  BY DEF ItemsJudged
<1>2. item' \in [Items -> ItemType]
  BY ResolvedType DEF TypeOK
<1>3. /\ item'[i].status = "approved" /\ item'[i].by = "human"
      /\ item'[i].permission = item[i].permission
      /\ \A j \in Items \ {i} : item'[j] = item[j]
  BY DEF Resolved, TypeOK, ItemType
<1>4. /\ target' \in [Items -> TargetType]
      /\ target'[i].status = "approved"
      /\ \A j \in Items \ {i} : target'[j] = target[j]
  BY <1>1 DEF TypeOK, NewTarget, TargetType
<1>5. NewLink(i, i) \in LinkType /\ NewLink(i, i).target = i
  BY <1>1 DEF NewLink, LinkType
<1>6. /\ link' \in [Items -> LinkType \cup {None}]
      /\ \A j \in Items \ {i} : link'[j] = link[j]
      /\ link'[i] = link[i] \/ link'[i] = NewLink(i, i)
  BY <1>5 DEF TypeOK
<1>7. link[i] = None
  BY DEF LinksAnchored
<1>8. ItemsJudged' /\ AutoLinked' /\ TargetsApproved'
  BY <1>1, <1>3, <1>4, <1>6
     DEF ItemsJudged, AutoLinked, TargetsApproved
<1>9. LinksAnchored'
  <2> SUFFICES ASSUME NEW j \in Items, link'[j] # None
               PROVE  /\ item'[j].status \in {"approved", "revoked"}
                      /\ target'[link'[j].target].status # "none"
    BY DEF LinksAnchored
  <2>1. CASE j = i
    BY <1>3, <1>4, <1>5, <1>6, <1>7, <2>1
  <2>2. CASE j # i
    BY <1>3, <1>4, <1>6, <2>2 DEF LinksAnchored
  <2> QED BY <2>1, <2>2
<1>10. PassAnchored'
  <2>1. \A j \in recon.todo : j \in Items /\ j # i
    BY <1>7 DEF PassAnchored, TypeOK, PassType
  <2> QED BY <1>6, <2>1 DEF PassAnchored
<1> QED BY <1>2, <1>4, <1>6, <1>8, <1>9, <1>10

(* The policy's approval adds a link to a row that is already trusted. *)
LEMMA AutoApprovalStep ==
    ASSUME TypeInv, NEW i \in Items, NEW k \in Items, NEW visible,
           AutoApprove(i, k, visible)
    PROVE  TypeInv'
<1> USE DEF TypeInv
<1>1. /\ item[i].status = "pending_review"
      /\ target[k] = [status |-> "approved", permission |-> item[i].permission]
  BY DEF AutoApprove, Reusable
<1>2. item[i].permission \in PermissionLevels
  BY <1>1 DEF ItemsJudged
<1>3. /\ item' = Resolved(i, "approved", "auto_policy")
      /\ link' = [link EXCEPT ![i] = NewLink(i, k)]
      /\ ProjectEffect(k, target[k].permission)
      /\ UNCHANGED <<source, changes, target, tombstone, critical, recon>>
  BY DEF AutoApprove
<1>4. item' \in [Items -> ItemType]
  BY <1>3, ResolvedType DEF TypeOK
<1>5. /\ item'[i].status = "approved"
      /\ item'[i].permission = item[i].permission
      /\ \A j \in Items \ {i} : item'[j] = item[j]
  BY <1>3 DEF Resolved, TypeOK, ItemType
<1>6. NewLink(i, k) \in LinkType /\ NewLink(i, k).target = k
  BY <1>2 DEF NewLink, LinkType
<1>7. /\ link' \in [Items -> LinkType \cup {None}]
      /\ link'[i] = NewLink(i, k)
      /\ \A j \in Items \ {i} : link'[j] = link[j]
  BY <1>3, <1>6 DEF TypeOK
<1>8. NewLink(i, k) # None
  BY <1>6, NoneAssumption DEF LinkType
<1>9. /\ fingerprint' \in [Items -> PermissionLevels \cup {None}]
      /\ projection' \in [ready : BOOLEAN, rebuilding : BOOLEAN]
  BY <1>1, <1>2, <1>3, ProjectEffectType DEF TypeOK
<1>10. TypeOK'
  BY <1>3, <1>4, <1>7, <1>9 DEF TypeOK
<1>11. target[i].status = "none"
  BY <1>1 DEF TargetsApproved
<1>12. ItemsJudged' /\ AutoLinked' /\ TargetsApproved'
  BY <1>2, <1>3, <1>5, <1>7, <1>8, <1>11
     DEF ItemsJudged, AutoLinked, TargetsApproved
<1>13. LinksAnchored'
  <2> SUFFICES ASSUME NEW j \in Items, link'[j] # None
               PROVE  /\ item'[j].status \in {"approved", "revoked"}
                      /\ target'[link'[j].target].status # "none"
    BY DEF LinksAnchored
  <2>1. CASE j = i
    BY <1>1, <1>3, <1>5, <1>6, <1>7, <2>1
  <2>2. CASE j # i
    BY <1>3, <1>5, <1>7, <2>2 DEF LinksAnchored
  <2> QED BY <2>1, <2>2
<1>14. PassAnchored'
  BY <1>3, <1>7, <1>8 DEF PassAnchored, TypeOK, PassType
<1> QED BY <1>10, <1>12, <1>13, <1>14

(* A narrowing changes the level of an item, its link and its row. *)
LEMMA NarrowStep ==
    ASSUME TypeInv, NEW i \in Items, ReconcileNarrow(i)
    PROVE  TypeInv'
<1> DEFINE k == link[i].target
           p == Narrowed(i, recon.source)
<1> USE DEF TypeInv
<1>1. /\ recon.pc = "next" /\ i \in recon.todo
      /\ item' = [item EXCEPT ![i].permission = p]
      /\ link' = [link EXCEPT ![i].permission = p]
      /\ target' = [target EXCEPT ![k].permission = p]
      /\ \/ fingerprint' = [fingerprint EXCEPT ![k] = p]
         \/ fingerprint' = fingerprint
      /\ projection' = projection
      /\ recon' = Rest(i)
      /\ UNCHANGED <<source, changes, tombstone, critical>>
  BY DEF ReconcileNarrow
<1>2. link[i] # None
  BY <1>1 DEF PassAnchored
<1>3. recon.source \in Sources
  BY <1>1 DEF TypeOK, PassType
<1>4. p \in PermissionLevels /\ link[i] \in LinkType /\ k \in Items
  BY <1>2, <1>3, NarrowedIs
<1> HIDE DEF p
<1>5. /\ item' \in [Items -> ItemType]
      /\ \A j \in Items : item'[j].status = item[j].status
                          /\ item'[j].by = item[j].by
      /\ item'[i].permission = p
      /\ \A j \in Items \ {i} : item'[j] = item[j]
  <2> DEFINE n == [item[i] EXCEPT !.permission = p]
  <2>1. n \in ItemType /\ n.permission = p /\ n.status = item[i].status
            /\ n.by = item[i].by
    <3>1. item[i] \in ItemType
      BY DEF TypeOK
    <3> QED BY <1>4, <3>1 DEF ItemType
  <2>2. item' = [item EXCEPT ![i] = n]
    BY <1>1
  <2> HIDE DEF n
  <2> QED BY <2>1, <2>2 DEF TypeOK
<1>6. link'[i] \in LinkType /\ link'[i].target = k
      /\ link' \in [Items -> LinkType \cup {None}]
      /\ \A j \in Items \ {i} : link'[j] = link[j]
  BY <1>1, <1>4 DEF TypeOK, LinkType
<1>7. link'[i] # None
  BY <1>6, NoneAssumption DEF LinkType
<1>8. target[k].status # "none"
  BY <1>2 DEF LinksAnchored
<1>9. /\ target' \in [Items -> TargetType]
      /\ \A j \in Items : target'[j].status = target[j].status
  <2>1. target[k] \in [status : {"approved", "revoked"},
                       permission : PermissionLevels]
    BY <1>4, <1>8 DEF TypeOK, TargetType
  <2> DEFINE n == [target[k] EXCEPT !.permission = p]
  <2>2. target' = [target EXCEPT ![k] = n]
    BY <1>1
  <2>3. n \in TargetType /\ n.status = target[k].status
    BY <1>4, <2>1 DEF TargetType
  <2> HIDE DEF n
  <2> QED BY <1>4, <2>2, <2>3 DEF TypeOK
<1>10. fingerprint' \in [Items -> PermissionLevels \cup {None}]
  BY <1>1, <1>4 DEF TypeOK
<1>11. recon' \in PassType /\ PassAnchored'
  BY <1>1, <1>6, <1>7, PassStep
<1>12. TypeOK'
  BY <1>1, <1>5, <1>6, <1>9, <1>10, <1>11 DEF TypeOK
<1>13. ItemsJudged' /\ AutoLinked' /\ TargetsApproved'
  BY <1>4, <1>5, <1>6, <1>7, <1>9
     DEF ItemsJudged, AutoLinked, TargetsApproved
<1>14. LinksAnchored'
  <2> SUFFICES ASSUME NEW j \in Items, link'[j] # None
               PROVE  /\ item'[j].status \in {"approved", "revoked"}
                      /\ target'[link'[j].target].status # "none"
    BY DEF LinksAnchored
  <2>1. CASE j = i
    BY <1>2, <1>4, <1>5, <1>6, <1>8, <1>9, <2>1 DEF LinksAnchored
  <2>2. CASE j # i
    <3>1. link[j] \in LinkType /\ link'[j] = link[j]
      BY <1>6, <2>2 DEF TypeOK
    <3> QED BY <1>5, <1>9, <2>2, <3>1 DEF LinksAnchored, LinkType
  <2> QED BY <2>1, <2>2
<1> QED BY <1>11, <1>12, <1>13, <1>14

(* A revocation in a step that keeps the pass or clears the item from it. *)
LEMMA RevokeStep ==
    ASSUME TypeInv, NEW i \in Items, RevokeEffect(i),
           \/ recon' = recon
           \/ /\ i \in recon.todo
              /\ recon.pc \in {"next", "revoking"}
              /\ recon' = Rest(i),
           UNCHANGED <<source, changes, critical>>
    PROVE  TypeInv'
<1>1. /\ item' \in [Items -> ItemType]
      /\ target' \in [Items -> TargetType]
      /\ link' \in [Items -> LinkType \cup {None}]
      /\ tombstone' \subseteq Items
      /\ fingerprint' \in [Items -> PermissionLevels \cup {None}]
      /\ projection' \in [ready : BOOLEAN, rebuilding : BOOLEAN]
      /\ ItemsJudged' /\ LinksAnchored' /\ AutoLinked' /\ TargetsApproved'
      /\ \A j \in Items : link[j] # None => link'[j] # None
  BY RevokeType
<1>2. recon' \in PassType /\ PassAnchored'
  BY <1>1, PassStep
<1> QED BY <1>1, <1>2 DEF TypeInv, TypeOK

LEMMA StepType == TypeInv /\ [Next]_vars => TypeInv'
<1> SUFFICES ASSUME TypeInv, [Next]_vars PROVE TypeInv'
  OBVIOUS
<1> DEFINE Dependent == ItemsJudged /\ LinksAnchored /\ AutoLinked
                            /\ TargetsApproved
<1>0. TypeOK /\ Dependent /\ PassAnchored
  BY DEF TypeInv
<1>a. ASSUME UNCHANGED <<source, changes, item, trusted, projection, critical>>,
             \/ recon' = recon
             \/ recon' = IdlePass
             \/ \E i \in recon.todo : /\ recon.pc \in {"next", "revoking"}
                                      /\ recon' = Rest(i)
      PROVE  TypeInv'
  <2>1. recon' \in PassType /\ PassAnchored'
    BY <1>a, PassStep DEF trusted
  <2>2. TypeOK'
    BY <1>0, <1>a, <2>1 DEF TypeOK, trusted
  <2>3. Dependent'
    BY <1>0, <1>a DEF ItemsJudged, LinksAnchored, AutoLinked,
                      TargetsApproved, trusted
  <2> QED BY <2>1, <2>2, <2>3 DEF TypeInv
<1>b. ASSUME UNCHANGED <<item, target, link, recon>>, TypeOK' PROVE TypeInv'
  BY <1>0, <1>b DEF TypeInv, ItemsJudged, LinksAnchored, AutoLinked,
                    TargetsApproved, PassAnchored
<1>1. CASE UNCHANGED vars
  BY <1>1, <1>a DEF vars
<1>2. ASSUME NEW s \in Sources, NEW v \in Versions, NEW p \in Levels,
             SourceChanges(s, v, p)
      PROVE  TypeInv'
  <2>1. source' \in [Sources -> SourceType] /\ changes' \in 0..MaxChanges
    BY <1>0, <1>2, LevelsAssumption, ChangesAssumption
       DEF SourceChanges, TypeOK, SourceType
  <2>2. TypeOK'
    BY <1>0, <1>2, <2>1 DEF SourceChanges, TypeOK, trusted
  <2> QED BY <1>2, <1>b, <2>2 DEF SourceChanges, trusted
<1>3. ASSUME NEW s \in Sources, ReconcileScan(s) PROVE TypeInv'
  <2> DEFINE found == {i \in Items : Actionable(i, s)}
  <2>1. recon' = [pc |-> "next", source |-> s, item |-> None, todo |-> found]
    BY <1>3 DEF ReconcileScan, IdlePass
  <2>2. found \in SUBSET Items /\ \A i \in found : link[i] # None
    BY DEF Actionable
  <2> HIDE DEF found
  <2>3. recon' \in PassType /\ PassAnchored'
    <3>1. recon' \in PassType
      BY <2>1, <2>2 DEF PassType
    <3>2. recon'.todo = found /\ recon'.pc = "next"
      BY <2>1
    <3>3. link' = link
      BY <1>3 DEF ReconcileScan, trusted
    <3> QED BY <2>2, <3>1, <3>2, <3>3 DEF PassAnchored
  <2>4. TypeOK'
    BY <1>0, <1>3, <2>3 DEF ReconcileScan, TypeOK, trusted
  <2>5. Dependent'
    BY <1>0, <1>3 DEF ReconcileScan, ItemsJudged, LinksAnchored, AutoLinked,
                      TargetsApproved, trusted
  <2> QED BY <2>3, <2>4, <2>5 DEF TypeInv
<1>4. CASE RebuildBegin
  <2>1. TypeOK'
    BY <1>0, <1>4 DEF RebuildBegin, TypeOK, trusted
  <2> QED BY <1>4, <1>b, <2>1 DEF RebuildBegin, trusted
<1>5. CASE RebuildFinish
  <2>1. TypeOK'
    BY <1>0, <1>5, ExpectedType DEF RebuildFinish, TypeOK
  <2> QED BY <1>5, <1>b, <2>1 DEF RebuildFinish
<1>6. CASE RebuildFails
  <2>1. TypeOK'
    BY <1>0, <1>6 DEF RebuildFails, TypeOK, trusted
  <2> QED BY <1>6, <1>b, <2>1 DEF RebuildFails, trusted
<1>7. CASE RevokeSourceInvalidated
  <2>1. recon.item \in Items /\ recon.item \in recon.todo
    BY <1>0, <1>7 DEF RevokeSourceInvalidated, TypeOK, PassType, PassAnchored
  <2> QED BY <1>7, <2>1, RevokeStep DEF RevokeSourceInvalidated
<1>8. CASE RevokeReplayed
  <2>1. recon.item \in recon.todo
    BY <1>0, <1>8 DEF RevokeReplayed, PassAnchored
  <2> QED BY <1>8, <1>a, <2>1 DEF RevokeReplayed
<1>9. CASE RevokeRefused
  BY <1>9, <1>a DEF RevokeRefused
<1>10. CASE ReconcileFails
  BY <1>10, <1>a DEF ReconcileFails
<1>11. ASSUME NEW i \in Items, NEW c \in Citations, Draft(i, c) PROVE TypeInv'
  <2>1. /\ item' \in [Items -> ItemType]
        /\ item'[i].permission \in PermissionLevels
        /\ item'[i].by = None /\ item'[i].status = "pending_review"
    BY <1>11, DraftType
  <2>2. TypeOK'
    BY <1>0, <1>11, <2>1 DEF Draft, TypeOK, trusted
  <2>3. Dependent' /\ PassAnchored'
    BY <1>0, <1>11, <2>1, UnlinkedItemStep DEF Draft, TypeOK, trusted
  <2> QED BY <2>2, <2>3 DEF TypeInv
<1>12. ASSUME NEW i \in Items, NEW p \in Levels, DraftLegacy(i, p)
       PROVE  TypeInv'
  <2> DEFINE n == [NoItem EXCEPT !.status = "pending_review",
                                 !.permission = p]
  <2>1. /\ n \in ItemType /\ n.permission \in PermissionLevels
        /\ n.status = "pending_review"
    <3>1. NoItem \in ItemType
      BY DEF NoItem, ItemType
    <3>2. p \in PermissionLevels
      BY LevelsAssumption
    <3> QED BY <3>1, <3>2 DEF ItemType
  <2>2. item' = [item EXCEPT ![i] = n]
    BY <1>12 DEF DraftLegacy
  <2> HIDE DEF n
  <2>3. /\ item' \in [Items -> ItemType] /\ item'[i] = n
        /\ \A j \in Items \ {i} : item'[j] = item[j]
    BY <1>0, <2>1, <2>2 DEF TypeOK
  <2>4. TypeOK'
    BY <1>0, <1>12, <2>3 DEF DraftLegacy, TypeOK, trusted
  <2>5. Dependent' /\ PassAnchored'
    BY <1>12, <2>1, <2>3, UnlinkedItemStep DEF DraftLegacy, trusted
  <2> QED BY <2>4, <2>5 DEF TypeInv
<1>13. ASSUME NEW i \in Items, HumanApprove(i) PROVE TypeInv'
  <2>1. item[i].permission \in PermissionLevels
    BY <1>0, <1>13 DEF HumanApprove, ItemsJudged
  <2>2. /\ fingerprint' \in [Items -> PermissionLevels \cup {None}]
        /\ projection' \in [ready : BOOLEAN, rebuilding : BOOLEAN]
    BY <1>0, <1>13, <2>1, ProjectEffectType DEF HumanApprove, TypeOK
  <2>3. /\ item' \in [Items -> ItemType]
        /\ target' \in [Items -> TargetType]
        /\ link' \in [Items -> LinkType \cup {None}]
        /\ Dependent' /\ PassAnchored'
    BY <1>13, HumanApprovalStep DEF HumanApprove
  <2> QED BY <1>0, <1>13, <2>2, <2>3 DEF HumanApprove, TypeInv, TypeOK
<1>14. ASSUME NEW i \in Items, HumanApproveLegacy(i) PROVE TypeInv'
  <2>1. /\ item' \in [Items -> ItemType]
        /\ target' \in [Items -> TargetType]
        /\ link' \in [Items -> LinkType \cup {None}]
        /\ Dependent' /\ PassAnchored'
    BY <1>14, HumanApprovalStep DEF HumanApproveLegacy
  <2>2. projection' \in [ready : BOOLEAN, rebuilding : BOOLEAN]
    BY <1>0, <1>14 DEF HumanApproveLegacy, Demoted, TypeOK
  <2> QED BY <1>0, <1>14, <2>1, <2>2 DEF HumanApproveLegacy, TypeInv, TypeOK
<1>15. ASSUME NEW i \in Items,
              NEW st \in {"rejected", "needs_more_evidence"},
              NEW by \in {"human", "auto_policy"},
              item[i].status = "pending_review", item' = Resolved(i, st, by),
              UNCHANGED <<source, changes, trusted, projection, critical, recon>>
       PROVE  TypeInv'
  <2>1. item' \in [Items -> ItemType]
    BY <1>0, <1>15, ResolvedType DEF TypeOK
  <2>2. /\ item'[i].status = st
        /\ item'[i].permission = item[i].permission
        /\ \A j \in Items \ {i} : item'[j] = item[j]
    BY <1>0, <1>15 DEF Resolved, TypeOK, ItemType
  <2>3. item'[i].permission \in PermissionLevels
    BY <1>0, <1>15, <2>2 DEF ItemsJudged
  <2>4. Dependent' /\ PassAnchored'
    BY <1>15, <2>1, <2>2, <2>3, UnlinkedItemStep DEF trusted
  <2>5. TypeOK'
    BY <1>0, <1>15, <2>1 DEF TypeOK, trusted
  <2> QED BY <2>4, <2>5 DEF TypeInv
<1>16. ASSUME NEW i \in Items, NEW st \in {"rejected", "needs_more_evidence"},
              Decline(i, st)
       PROVE  TypeInv'
  BY <1>15, <1>16 DEF Decline
<1>17. ASSUME NEW i \in Items, mark_evidence_stale(i) PROVE TypeInv'
  BY <1>15, <1>17 DEF mark_evidence_stale
<1>18. ASSUME NEW i \in Items, NEW k \in Items, NEW visible,
              AutoApprove(i, k, visible)
       PROVE  TypeInv'
  BY <1>18, AutoApprovalStep
<1>19. ASSUME NEW i \in Items, CriticalVerdict(i) PROVE TypeInv'
  <2>1. TypeOK'
    BY <1>0, <1>19 DEF CriticalVerdict, TypeOK, trusted
  <2> QED BY <1>19, <1>b, <2>1 DEF CriticalVerdict, trusted
<1>20. ASSUME NEW i \in Items, BusinessWithdrawal(i) \/ QualityRevoke(i)
       PROVE  TypeInv'
  BY <1>20, RevokeStep DEF BusinessWithdrawal, QualityRevoke
<1>21. ASSUME NEW i \in Items, ReconcileGone(i) PROVE TypeInv'
  BY <1>21, <1>a DEF ReconcileGone
<1>22. ASSUME NEW i \in Items, ReconcileNarrow(i) PROVE TypeInv'
  BY <1>22, NarrowStep
<1>23. ASSUME NEW i \in Items, ReconcileStale(i) PROVE TypeInv'
  <2>1. /\ i \in recon.todo /\ recon.pc = "next"
        /\ recon' = [recon EXCEPT !.pc = "revoking", !.item = i]
    BY <1>23 DEF ReconcileStale
  <2>2. recon \in [pc : {"next"}, source : Sources, item : {None},
                   todo : SUBSET Items]
    BY <1>0, <2>1 DEF TypeOK, PassType
  <2>3. recon' \in [pc : {"revoking"}, source : Sources, item : Items,
                    todo : SUBSET Items]
          /\ recon'.todo = recon.todo /\ recon'.item = i
    BY <2>1, <2>2
  <2>4. TypeOK'
    BY <1>0, <1>23, <2>3 DEF ReconcileStale, TypeOK, PassType, trusted
  <2>5. PassAnchored'
    BY <1>0, <1>23, <2>1, <2>3 DEF ReconcileStale, PassAnchored, trusted
  <2>6. Dependent'
    BY <1>0, <1>23 DEF ReconcileStale, ItemsJudged, LinksAnchored, AutoLinked,
                       TargetsApproved, trusted
  <2> QED BY <2>4, <2>5, <2>6 DEF TypeInv
<1> QED
  BY <1>1, <1>2, <1>3, <1>4, <1>5, <1>6, <1>7, <1>8, <1>9, <1>10, <1>11,
     <1>12, <1>13, <1>14, <1>16, <1>17, <1>18, <1>19, <1>20, <1>21, <1>22,
     <1>23
  DEF Next

(* Every row holds values its columns admit (TypeOK), whatever order         *)
(* approvals, source changes, reconciliation and revocation come in.         *)
THEOREM TypeCorrect == Spec => []TypeOK
<1>1. Spec => []TypeInv
  BY InitType, StepType, PTL DEF Spec
<1>2. TypeInv => TypeOK
  BY DEF TypeInv
<1> QED BY <1>1, <1>2, PTL

-----------------------------------------------------------------------------
(* What a step can do to the items and to what is trusted.                   *)

(* An item that has no link yet is drafted, declined or found stale. *)
ItemStep(i) ==
    /\ item[i].status \in {"none", "pending_review"}
    /\ item'[i].status \notin {"none", "approved", "revoked"}
    /\ \A j \in Items \ {i} : item'[j] = item[j]
    /\ UNCHANGED <<trusted, projection>>

(* Readiness is only ever given up. *)
RebuildStep ==
    /\ UNCHANGED <<item, trusted>>
    /\ projection'.ready => projection.ready

LEMMA StepCases ==
    ASSUME TypeInv, [Next]_vars
    PROVE  \/ RebuildStep
           \/ RebuildFinish
           \/ \E i \in Items :
                \/ ItemStep(i)
                \/ HumanApprove(i)
                \/ HumanApproveLegacy(i)
                \/ \E k \in Items, visible \in {{"public"}, ServingLevels} :
                        AutoApprove(i, k, visible)
                \/ RevokeEffect(i)
                \/ ReconcileNarrow(i)
<1> DEFINE Goal == \/ RebuildStep
                   \/ RebuildFinish
                   \/ \E i \in Items :
                        \/ ItemStep(i)
                        \/ HumanApprove(i)
                        \/ HumanApproveLegacy(i)
                        \/ \E k \in Items,
                              visible \in {{"public"}, ServingLevels} :
                                AutoApprove(i, k, visible)
                        \/ RevokeEffect(i)
                        \/ ReconcileNarrow(i)
<1>0. TypeOK
  BY DEF TypeInv
<1>1. ASSUME UNCHANGED <<item, trusted, projection>> PROVE RebuildStep
  BY <1>1 DEF RebuildStep
<1>2. CASE UNCHANGED vars
  BY <1>1, <1>2 DEF vars
<1>3. ASSUME NEW s \in Sources,
             \/ \E v \in Versions, p \in Levels : SourceChanges(s, v, p)
             \/ ReconcileScan(s)
      PROVE  RebuildStep
  BY <1>1, <1>3 DEF SourceChanges, ReconcileScan
<1>4. CASE RebuildBegin \/ RebuildFails
  BY <1>0, <1>4 DEF RebuildBegin, RebuildFails, RebuildStep, TypeOK
<1>5. CASE RevokeReplayed \/ RevokeRefused \/ ReconcileFails
  BY <1>1, <1>5 DEF RevokeReplayed, RevokeRefused, ReconcileFails
<1>6. ASSUME NEW i \in Items,
             CriticalVerdict(i) \/ ReconcileGone(i) \/ ReconcileStale(i)
      PROVE  RebuildStep
  BY <1>1, <1>6 DEF CriticalVerdict, ReconcileGone, ReconcileStale
<1>7. ASSUME NEW i \in Items, NEW c \in Citations, Draft(i, c)
      PROVE  ItemStep(i)
  <2>1. item'[i].status = "pending_review"
    BY <1>7, DraftType
  <2> QED BY <1>0, <1>7, <2>1 DEF Draft, ItemStep, TypeOK
<1>8. ASSUME NEW i \in Items, NEW p \in Levels, DraftLegacy(i, p)
      PROVE  ItemStep(i)
  <2> DEFINE n == [NoItem EXCEPT !.status = "pending_review",
                                 !.permission = p]
  <2>1. n.status = "pending_review"
    BY DEF NoItem
  <2>2. item' = [item EXCEPT ![i] = n]
    BY <1>8 DEF DraftLegacy
  <2> HIDE DEF n
  <2> QED BY <1>0, <1>8, <2>1, <2>2 DEF DraftLegacy, ItemStep, TypeOK
<1>9. ASSUME NEW i \in Items,
             \/ \E st \in {"rejected", "needs_more_evidence"} : Decline(i, st)
             \/ mark_evidence_stale(i)
      PROVE  ItemStep(i)
  <2>1. PICK st \in {"rejected", "needs_more_evidence"},
             by \in {"human", "auto_policy"} : item' = Resolved(i, st, by)
    BY <1>9 DEF Decline, mark_evidence_stale
  <2>2. /\ item'[i].status = st
        /\ \A j \in Items \ {i} : item'[j] = item[j]
    BY <1>0, <2>1 DEF Resolved, TypeOK, ItemType
  <2> QED BY <1>9, <2>2 DEF Decline, mark_evidence_stale, ItemStep
<1>10. CASE RevokeSourceInvalidated
  <2>1. recon.item \in Items
    BY <1>0, <1>10 DEF RevokeSourceInvalidated, TypeOK, PassType
  <2> QED BY <1>10, <2>1 DEF RevokeSourceInvalidated
<1>11. ASSUME NEW i \in Items, BusinessWithdrawal(i) \/ QualityRevoke(i)
       PROVE  RevokeEffect(i)
  BY <1>11 DEF BusinessWithdrawal, QualityRevoke
<1>12. ASSUME Next PROVE Goal
  <2> USE <1>12
  <2>1. CASE \E s \in Sources :
                \/ \E v \in Versions, p \in Levels : SourceChanges(s, v, p)
                \/ ReconcileScan(s)
    BY <1>3, <2>1
  <2>2. CASE \/ RebuildBegin \/ RebuildFinish \/ RebuildFails
             \/ RevokeSourceInvalidated \/ RevokeReplayed \/ RevokeRefused
             \/ ReconcileFails
    BY <1>4, <1>5, <1>10, <2>2
  <2>3. ASSUME NEW i \in Items,
            \/ \E c \in Citations : Draft(i, c)
            \/ \E p \in Levels : DraftLegacy(i, p)
            \/ HumanApprove(i)
            \/ HumanApproveLegacy(i)
            \/ \E st \in {"rejected", "needs_more_evidence"} : Decline(i, st)
            \/ mark_evidence_stale(i)
            \/ \E k \in Items, visible \in {{"public"}, ServingLevels} :
                    AutoApprove(i, k, visible)
            \/ CriticalVerdict(i)
            \/ BusinessWithdrawal(i)
            \/ QualityRevoke(i)
            \/ ReconcileGone(i)
            \/ ReconcileNarrow(i)
            \/ ReconcileStale(i)
        PROVE Goal
    BY <1>6, <1>7, <1>8, <1>9, <1>11, <2>3
  <2> QED BY <2>1, <2>2, <2>3 DEF Next
<1> QED BY <1>2, <1>12

(* The row a revocation is about, and what becomes of it. *)
LEMMA RevokeShape ==
    ASSUME TypeInv, NEW i \in Items, RevokeEffect(i)
    PROVE  LET k == link[i].target IN
           /\ link[i] \in LinkType /\ k \in Items
           /\ target[k] \in [status : {"approved", "revoked"},
                             permission : PermissionLevels]
           /\ item[i].status = "approved" /\ item[i].by = "auto_policy"
           /\ \/ UNCHANGED <<target, tombstone, fingerprint, projection>>
              \/ /\ target' = [target EXCEPT ![k].status = "revoked"]
                 /\ tombstone' = tombstone \cup {k}
                 /\ fingerprint' = [fingerprint EXCEPT ![k] = None]
                 /\ projection' = Demoted
<1>1. link[i] # None /\ link[i] \in LinkType /\ link[i].target \in Items
  BY DEF RevokeEffect, TypeInv, AutoLinked, TypeOK, LinkType
<1>2. target[link[i].target] \in [status : {"approved", "revoked"},
                                  permission : PermissionLevels]
  BY <1>1 DEF LinksAnchored, TypeInv, TypeOK, TargetType
<1> QED BY <1>1, <1>2 DEF RevokeEffect

-----------------------------------------------------------------------------
(* Withdrawn knowledge *)

LEMMA InitTrace == Init => WithdrawnLeavesNoTrace
BY DEF Init, NoTarget, WithdrawnLeavesNoTrace

LEMMA StepTrace ==
    TypeInv /\ WithdrawnLeavesNoTrace /\ [Next]_vars => WithdrawnLeavesNoTrace'
<1> SUFFICES ASSUME TypeInv, WithdrawnLeavesNoTrace, [Next]_vars
             PROVE  WithdrawnLeavesNoTrace'
  OBVIOUS
<1>0. TypeOK
  BY DEF TypeInv
<1>1. ASSUME UNCHANGED trusted PROVE WithdrawnLeavesNoTrace'
  BY <1>1 DEF trusted, WithdrawnLeavesNoTrace
<1>2. CASE RebuildStep
  BY <1>1, <1>2 DEF RebuildStep
<1>3. CASE RebuildFinish
  BY <1>3 DEF RebuildFinish, Expected, WithdrawnLeavesNoTrace
<1>4. ASSUME NEW i \in Items, ItemStep(i) PROVE WithdrawnLeavesNoTrace'
  BY <1>1, <1>4 DEF ItemStep
<1>5. ASSUME NEW i \in Items, HumanApprove(i) \/ HumanApproveLegacy(i)
      PROVE  WithdrawnLeavesNoTrace'
  <2>1. target[i].status = "none"
    BY <1>5 DEF HumanApprove, HumanApproveLegacy, TypeInv, TargetsApproved
  <2>2. i \notin tombstone
    BY <2>1 DEF WithdrawnLeavesNoTrace
  <2>3. /\ target'[i].status = "approved"
        /\ \A k \in Items \ {i} : target'[k] = target[k]
        /\ tombstone' = tombstone
        /\ \A k \in Items \ {i} : fingerprint'[k] = fingerprint[k]
    BY <1>0, <1>5
       DEF HumanApprove, HumanApproveLegacy, NewTarget, ProjectEffect, TypeOK
  <2> QED BY <2>2, <2>3 DEF WithdrawnLeavesNoTrace
<1>6. ASSUME NEW i \in Items, NEW k \in Items, NEW visible,
             AutoApprove(i, k, visible)
      PROVE  WithdrawnLeavesNoTrace'
  <2>1. k \notin tombstone
    BY <1>6 DEF AutoApprove, Reusable, WithdrawnLeavesNoTrace
  <2>2. /\ UNCHANGED <<target, tombstone>>
        /\ \A j \in Items \ {k} : fingerprint'[j] = fingerprint[j]
    BY <1>0, <1>6 DEF AutoApprove, ProjectEffect, TypeOK
  <2> QED BY <2>1, <2>2 DEF WithdrawnLeavesNoTrace
<1>7. ASSUME NEW i \in Items, RevokeEffect(i) PROVE WithdrawnLeavesNoTrace'
  <2> DEFINE k == link[i].target
  <2>1. CASE UNCHANGED <<target, tombstone, fingerprint, projection>>
    BY <2>1 DEF WithdrawnLeavesNoTrace
  <2>2. CASE /\ target' = [target EXCEPT ![k].status = "revoked"]
             /\ tombstone' = tombstone \cup {k}
             /\ fingerprint' = [fingerprint EXCEPT ![k] = None]
    <3>1. k \in Items /\ target[k] \in [status : {"approved", "revoked"},
                                        permission : PermissionLevels]
      BY <1>7, RevokeShape
    <3>2. target'[k].status = "revoked"
            /\ \A j \in Items \ {k} : target'[j] = target[j]
      BY <1>0, <2>2, <3>1 DEF TypeOK
    <3>3. fingerprint'[k] = None
            /\ \A j \in Items \ {k} : fingerprint'[j] = fingerprint[j]
      BY <1>0, <2>2, <3>1 DEF TypeOK
    <3> HIDE DEF k
    <3> QED BY <2>2, <3>1, <3>2, <3>3 DEF WithdrawnLeavesNoTrace
  <2> QED BY <1>7, <2>1, <2>2, RevokeShape
<1>8. ASSUME NEW i \in Items, ReconcileNarrow(i) PROVE WithdrawnLeavesNoTrace'
  <2> DEFINE k == link[i].target
             p == Narrowed(i, recon.source)
  <2>1. link[i] # None
    BY <1>8 DEF ReconcileNarrow, TypeInv, PassAnchored
  <2>2. k \in Items
    BY <1>0, <2>1 DEF TypeOK, LinkType
  <2>3. /\ target' = [target EXCEPT ![k].permission = p]
        /\ tombstone' = tombstone
        /\ \/ fingerprint[k] # None /\ fingerprint' = [fingerprint EXCEPT ![k] = p]
           \/ fingerprint' = fingerprint
    BY <1>8 DEF ReconcileNarrow
  <2>4. \A j \in Items : target'[j].status = target[j].status
    BY <1>0, <2>2, <2>3 DEF TypeOK, TargetType
  <2>5. \A j \in Items : fingerprint[j] = None => fingerprint'[j] = None
    BY <1>0, <2>2, <2>3 DEF TypeOK
  <2> HIDE DEF k, p
  <2> QED BY <2>3, <2>4, <2>5 DEF WithdrawnLeavesNoTrace
<1> QED
  BY <1>2, <1>3, <1>4, <1>5, <1>6, <1>7, <1>8, StepCases

(* Withdrawn knowledge keeps its tombstone and no fingerprint finds it       *)
(* (_revoke, project_approved_effects, rebuild).                             *)
THEOREM WithdrawalIsFinal == Spec => []WithdrawnLeavesNoTrace
<1>1. Spec => []TypeInv
  BY InitType, StepType, PTL DEF Spec
<1> QED BY <1>1, InitTrace, StepTrace, PTL DEF Spec

-----------------------------------------------------------------------------
(* The projection *)

LEMMA InitReady == Init => ReadyProjectionIsExact
BY DEF Init, ReadyProjectionIsExact

LEMMA StepReady ==
    TypeInv /\ ReadyProjectionIsExact /\ [Next]_vars => ReadyProjectionIsExact'
<1> SUFFICES ASSUME TypeInv, ReadyProjectionIsExact, [Next]_vars,
                    projection'.ready
             PROVE  fingerprint' = Expected'
  BY DEF ReadyProjectionIsExact
<1>0. TypeOK
  BY DEF TypeInv
<1>1. ASSUME projection.ready PROVE fingerprint = Expected
  BY <1>1 DEF ReadyProjectionIsExact
<1>2. ASSUME projection.ready, UNCHANGED <<target, fingerprint>>
      PROVE  fingerprint' = Expected'
  BY <1>1, <1>2 DEF Expected
<1>3. CASE RebuildStep
  BY <1>2, <1>3 DEF RebuildStep, trusted
<1>4. CASE RebuildFinish
  BY <1>4 DEF RebuildFinish, Expected
<1>5. ASSUME NEW i \in Items, ItemStep(i) PROVE fingerprint' = Expected'
  BY <1>2, <1>5 DEF ItemStep, trusted
<1>6. ASSUME NEW k \in Items, NEW p, ProjectEffect(k, p)
      PROVE  /\ fingerprint = Expected
             /\ fingerprint' = [Expected EXCEPT ![k] = p]
  <2>1. projection.ready
    BY <1>0, <1>6 DEF ProjectEffect, Demoted, Healthy, TypeOK
  <2> QED BY <1>1, <1>6, <2>1 DEF ProjectEffect
<1>7. ASSUME NEW i \in Items, HumanApprove(i) PROVE fingerprint' = Expected'
  <2>1. fingerprint' = [Expected EXCEPT ![i] = item[i].permission]
    BY <1>6, <1>7 DEF HumanApprove
  <2>2. /\ target'[i].status = "approved"
        /\ target'[i].permission = item[i].permission
        /\ \A j \in Items \ {i} : target'[j] = target[j]
    BY <1>0, <1>7 DEF HumanApprove, NewTarget, TypeOK
  <2> QED BY <2>1, <2>2 DEF Expected
<1>8. ASSUME NEW i \in Items, HumanApproveLegacy(i)
      PROVE  fingerprint' = Expected'
  BY <1>0, <1>8 DEF HumanApproveLegacy, Demoted, TypeOK
<1>9. ASSUME NEW i \in Items, NEW k \in Items, NEW visible,
             AutoApprove(i, k, visible)
      PROVE  fingerprint' = Expected'
  <2>1. fingerprint' = [Expected EXCEPT ![k] = target[k].permission]
    BY <1>6, <1>9 DEF AutoApprove
  <2>2. target' = target /\ target[k].status = "approved"
    BY <1>9 DEF AutoApprove, Reusable
  <2> QED BY <2>1, <2>2 DEF Expected
<1>10. ASSUME NEW i \in Items, RevokeEffect(i) PROVE fingerprint' = Expected'
  <2>1. CASE UNCHANGED <<target, tombstone, fingerprint, projection>>
    BY <1>2, <2>1
  <2>2. projection' # Demoted
    BY <1>0 DEF Demoted, TypeOK
  <2> QED BY <1>10, <2>1, <2>2, RevokeShape
<1>11. ASSUME NEW i \in Items, ReconcileNarrow(i)
       PROVE  fingerprint' = Expected'
  <2> DEFINE k == link[i].target
             p == Narrowed(i, recon.source)
  <2>1. /\ projection' = projection
        /\ target' = [target EXCEPT ![k].permission = p]
        /\ \/ /\ fingerprint[k] # None /\ Broader(fingerprint[k], p)
              /\ fingerprint' = [fingerprint EXCEPT ![k] = p]
           \/ /\ ~(fingerprint[k] # None /\ Broader(fingerprint[k], p))
              /\ fingerprint' = fingerprint
    BY <1>11 DEF ReconcileNarrow
  <2>2. link[i] # None /\ recon.source \in Sources
    BY <1>0, <1>11 DEF ReconcileNarrow, TypeInv, PassAnchored, TypeOK, PassType
  <2>3. /\ p \in PermissionLevels /\ k \in Items
        /\ target[k].permission \in PermissionLevels
        /\ ~Broader(p, target[k].permission)
    BY <2>2, NarrowedIs
  <2>4. fingerprint = Expected
    BY <1>1, <2>1
  <2> HIDE DEF k, p
  <2>5. /\ target'[k].status = target[k].status
        /\ target'[k].permission = p
        /\ \A j \in Items \ {k} : target'[j] = target[j]
    BY <1>0, <2>1, <2>3 DEF TypeOK, TargetType
  <2>6. CASE target[k].status = "approved"
    <3>1. fingerprint[k] = target[k].permission /\ fingerprint[k] # None
      BY <2>3, <2>4, <2>6, NoneAssumption DEF Expected
    <3>2. fingerprint' = [Expected EXCEPT ![k] = p]
      <4>1. CASE Broader(fingerprint[k], p)
        BY <2>1, <2>4, <3>1, <4>1
      <4>2. CASE ~Broader(fingerprint[k], p)
        <5>1. fingerprint[k] = p
          BY <2>3, <3>1, <4>2, BroaderOrder
        <5> QED BY <2>1, <2>3, <2>4, <4>2, <5>1 DEF Expected
      <4> QED BY <4>1, <4>2
    <3> QED BY <2>5, <2>6, <3>2 DEF Expected
  <2>7. CASE target[k].status # "approved"
    <3>1. fingerprint' = fingerprint
      BY <2>1, <2>3, <2>4, <2>7 DEF Expected
    <3> QED BY <2>4, <2>5, <2>7, <3>1 DEF Expected
  <2> QED BY <2>6, <2>7
<1> QED
  BY <1>3, <1>4, <1>5, <1>7, <1>8, <1>9, <1>10, <1>11, StepCases

(* The projection is exact whenever it reports itself ready                  *)
(* (project_approved_effects, _narrow_fingerprint, demote, rebuild).         *)
THEOREM ReadinessIsHonest == Spec => []ReadyProjectionIsExact
<1>1. Spec => []TypeInv
  BY InitType, StepType, PTL DEF Spec
<1> QED BY <1>1, InitReady, StepReady, PTL DEF Spec

-----------------------------------------------------------------------------
(* Permissions *)

LEMMA InitPermissions == Init => KnowledgeNoBroaderThanApprovals
BY DEF Init, KnowledgeNoBroaderThanApprovals

LEMMA StepPermissions ==
    TypeInv /\ KnowledgeNoBroaderThanApprovals /\ [Next]_vars
    => KnowledgeNoBroaderThanApprovals'
<1> DEFINE Covered(i) ==
        /\ item[i].permission = link[i].permission
        /\ ~Broader(target[link[i].target].permission, link[i].permission)
<1> SUFFICES ASSUME TypeInv, KnowledgeNoBroaderThanApprovals, [Next]_vars,
                    NEW j \in Items, link'[j] # None
             PROVE  Covered(j)'
  BY DEF KnowledgeNoBroaderThanApprovals
<1>0. TypeOK
  BY DEF TypeInv
<1>1. ASSUME link[j] # None
      PROVE  /\ Covered(j) /\ link[j] \in LinkType
             /\ link[j].target \in Items
             /\ link[j].permission \in PermissionLevels
             /\ target[link[j].target].status # "none"
             /\ target[link[j].target].permission \in PermissionLevels
             /\ item[j].status \in {"approved", "revoked"}
  <2>1. link[j] \in LinkType /\ target[link[j].target].status # "none"
            /\ item[j].status \in {"approved", "revoked"}
    BY <1>0, <1>1 DEF TypeInv, TypeOK, LinksAnchored
  <2>2. link[j].target \in Items /\ link[j].permission \in PermissionLevels
    BY <2>1 DEF LinkType
  <2>3. target[link[j].target].permission \in PermissionLevels
    BY <1>0, <2>1, <2>2 DEF TypeOK, TargetType
  <2> QED BY <1>1, <2>1, <2>2, <2>3 DEF KnowledgeNoBroaderThanApprovals
<1>2. ASSUME link'[j] = link[j], item'[j].permission = item[j].permission,
             \A k \in Items : target[k].status # "none"
                => target'[k].permission = target[k].permission
      PROVE  Covered(j)'
  BY <1>1, <1>2
<1>3. CASE RebuildStep \/ RebuildFinish
  BY <1>2, <1>3 DEF RebuildStep, RebuildFinish, trusted
<1>4. ASSUME NEW i \in Items, ItemStep(i) PROVE Covered(j)'
  <2>1. link' = link /\ target' = target
    BY <1>4 DEF ItemStep, trusted
  <2>2. j # i
    BY <1>1, <1>4, <2>1 DEF ItemStep
  <2> QED BY <1>2, <1>4, <2>1, <2>2 DEF ItemStep
<1>5. ASSUME NEW i \in Items, HumanApprove(i) \/ HumanApproveLegacy(i)
      PROVE  Covered(j)'
  <2>1. item[i].status = "pending_review" /\ target[i].status = "none"
    BY <1>5 DEF HumanApprove, HumanApproveLegacy, TypeInv, TargetsApproved
  <2>2. /\ item'[j].permission = item[j].permission
        /\ target'[i].permission = item[i].permission
        /\ \A k \in Items \ {i} : target'[k] = target[k]
        /\ \/ link'[j] = link[j]
           \/ /\ j = i
              /\ link'[j] = NewLink(i, i)
    BY <1>0, <1>5 DEF HumanApprove, HumanApproveLegacy, Resolved, NewTarget,
                      TypeOK, ItemType
  <2>3. CASE link'[j] = link[j]
    BY <1>2, <2>1, <2>2, <2>3
  <2>4. CASE j = i /\ link'[j] = NewLink(i, i)
    <3>1. item[i].permission \in PermissionLevels
      BY <2>1 DEF TypeInv, ItemsJudged
    <3> QED BY <2>2, <2>4, <3>1, BroaderOrder DEF NewLink
  <2> QED BY <2>2, <2>3, <2>4
<1>6. ASSUME NEW i \in Items, NEW k \in Items, NEW visible,
             AutoApprove(i, k, visible)
      PROVE  Covered(j)'
  <2>1. /\ item[i].status = "pending_review"
        /\ target[k].permission = item[i].permission
    BY <1>6 DEF AutoApprove, Reusable
  <2>2. /\ item'[j].permission = item[j].permission
        /\ target' = target
        /\ \/ link'[j] = link[j]
           \/ /\ j = i
              /\ link'[j] = NewLink(i, k)
    BY <1>0, <1>6 DEF AutoApprove, Resolved, TypeOK, ItemType
  <2>3. CASE link'[j] = link[j]
    BY <1>2, <2>2, <2>3
  <2>4. CASE j = i /\ link'[j] = NewLink(i, k)
    <3>1. item[i].permission \in PermissionLevels
      BY <2>1 DEF TypeInv, ItemsJudged
    <3> QED BY <2>1, <2>2, <2>4, <3>1, BroaderOrder DEF NewLink
  <2> QED BY <2>2, <2>3, <2>4
<1>7. ASSUME NEW i \in Items, RevokeEffect(i) PROVE Covered(j)'
  <2>1. item'[j].permission = item[j].permission
    BY <1>0, <1>7 DEF RevokeEffect, TypeOK, ItemType
  <2>2. \A k \in Items : target'[k].permission = target[k].permission
    <3> DEFINE k == link[i].target
    <3>1. k \in Items /\ target[k] \in [status : {"approved", "revoked"},
                                        permission : PermissionLevels]
      BY <1>7, RevokeShape
    <3>2. \/ target' = target
          \/ target' = [target EXCEPT ![k].status = "revoked"]
      BY <1>7, RevokeShape
    <3> HIDE DEF k
    <3> QED BY <1>0, <3>1, <3>2 DEF TypeOK
  <2>3. /\ link[j] # None
        /\ link'[j].target = link[j].target
        /\ link'[j].permission = link[j].permission
    <3>1. link[i] \in LinkType
      BY <1>7, RevokeShape
    <3> QED BY <1>0, <1>7, <3>1, NoneAssumption
            DEF RevokeEffect, TypeOK, LinkType
  <2> QED BY <1>1, <2>1, <2>2, <2>3
<1>8. ASSUME NEW i \in Items, ReconcileNarrow(i) PROVE Covered(j)'
  <2> DEFINE k == link[i].target
             p == Narrowed(i, recon.source)
  <2>1. /\ item' = [item EXCEPT ![i].permission = p]
        /\ link' = [link EXCEPT ![i].permission = p]
        /\ target' = [target EXCEPT ![k].permission = p]
    BY <1>8 DEF ReconcileNarrow
  <2>2. link[i] # None /\ recon.source \in Sources
    BY <1>0, <1>8 DEF ReconcileNarrow, TypeInv, PassAnchored, TypeOK, PassType
  <2>3. /\ p \in PermissionLevels /\ k \in Items /\ link[i] \in LinkType
        /\ target[k].permission \in PermissionLevels
        /\ ~Broader(p, target[k].permission)
    BY <2>2, NarrowedIs
  <2> HIDE DEF p
  <2>4. /\ target'[k].permission = p
        /\ \A h \in Items \ {k} : target'[h] = target[h]
    BY <1>0, <2>1, <2>3 DEF TypeOK, TargetType
  <2>5. CASE j = i
    <3>1. item'[j].permission = p
      BY <1>0, <2>1, <2>5 DEF TypeOK, ItemType
    <3>2. link'[j].permission = p /\ link'[j].target = k
      BY <1>0, <2>1, <2>3, <2>5 DEF TypeOK, LinkType
    <3> QED BY <2>3, <2>4, <3>1, <3>2, BroaderOrder
  <2>6. CASE j # i
    <3>1. link'[j] = link[j] /\ item'[j] = item[j] /\ link[j] # None
      BY <1>0, <2>1, <2>6 DEF TypeOK
    <3>2. CASE link[j].target = k
      <4>1. ~Broader(target[k].permission, link[j].permission)
        BY <1>1, <3>1, <3>2
      <4>2. ~Broader(p, link[j].permission)
        BY <1>1, <2>3, <3>1, <4>1, BroaderOrder
      <4> QED BY <1>1, <2>4, <3>1, <3>2, <4>2
    <3>3. CASE link[j].target # k
      BY <1>1, <2>4, <3>1, <3>3
    <3> QED BY <3>2, <3>3
  <2> QED BY <2>5, <2>6
<1> QED
  BY <1>3, <1>4, <1>5, <1>6, <1>7, <1>8, StepCases

(* Knowledge never becomes broader than one of its approvals                 *)
(* (validate_reuse_bundle, _narrow_current_effect).                          *)
THEOREM PermissionsNarrow == Spec => []KnowledgeNoBroaderThanApprovals
<1>1. Spec => []TypeInv
  BY InitType, StepType, PTL DEF Spec
<1> QED BY <1>1, InitPermissions, StepPermissions, PTL DEF Spec

-----------------------------------------------------------------------------
(* What the policy joins *)

LEMMA StepJoins ==
    TypeInv /\ ReadyProjectionIsExact /\ [Next]_vars
    => \A i \in Items :
        link[i] = None /\ link'[i] # None /\ item'[i].by = "auto_policy"
        => /\ {k \in Items : target[k].status = "approved"}
                = {link'[i].target}
           /\ target[link'[i].target].permission = item[i].permission
<1> SUFFICES ASSUME TypeInv, ReadyProjectionIsExact, [Next]_vars,
                    NEW j \in Items, link[j] = None, link'[j] # None,
                    item'[j].by = "auto_policy"
             PROVE  /\ {k \in Items : target[k].status = "approved"}
                        = {link'[j].target}
                    /\ target[link'[j].target].permission = item[j].permission
  OBVIOUS
<1>0. TypeOK
  BY DEF TypeInv
<1>1. ~RebuildStep /\ ~RebuildFinish /\ \A i \in Items : ~ItemStep(i)
  BY DEF RebuildStep, RebuildFinish, ItemStep, trusted
<1>2. ASSUME NEW i \in Items, HumanApprove(i) \/ HumanApproveLegacy(i)
      PROVE  FALSE
  <2>1. i = j /\ item'[i].by = "human"
    BY <1>0, <1>2
       DEF HumanApprove, HumanApproveLegacy, Resolved, TypeOK, ItemType
  <2> QED BY <2>1
<1>3. ASSUME NEW i \in Items, RevokeEffect(i) PROVE FALSE
  <2>1. link[i] # None /\ link' = [link EXCEPT ![i].active = FALSE]
    BY <1>3 DEF RevokeEffect, TypeInv, AutoLinked
  <2> QED BY <1>0, <2>1 DEF TypeOK
<1>4. ASSUME NEW i \in Items, ReconcileNarrow(i) PROVE FALSE
  <2>1. link[i] # None
    BY <1>4 DEF ReconcileNarrow, TypeInv, PassAnchored
  <2> QED BY <1>0, <1>4, <2>1 DEF ReconcileNarrow, TypeOK
<1>5. PICK i \in Items, k \in Items,
           visible \in {{"public"}, ServingLevels} : AutoApprove(i, k, visible)
  BY <1>1, <1>2, <1>3, <1>4, StepCases
<1>6. i = j /\ link'[j].target = k
  BY <1>0, <1>5 DEF AutoApprove, NewLink, TypeOK
<1>7. fingerprint = Expected
  BY <1>5 DEF AutoApprove, Healthy
<1>8. \A h \in Items : fingerprint[h] # None <=> target[h].status = "approved"
  BY <1>0, <1>7, NoneAssumption DEF Expected, TypeOK, TargetType
<1>9. {h \in Items : fingerprint[h] # None} = {k}
  BY <1>5 DEF AutoApprove, OnlyVisibleDuplicate
<1>10. target[k].permission = item[j].permission
  BY <1>5, <1>6 DEF AutoApprove, Reusable
<1> QED BY <1>6, <1>8, <1>9, <1>10

(* An automatic approval only joins the one trusted row of its claim, at the *)
(* permission it was judged at (_require_exact_reaffirmation_collision_clear,*)
(* validate_reuse_bundle).                                                   *)
THEOREM PolicyJoinsDuplicates == Spec => AutoJoinsOnlyDuplicate
<1>1. Spec => []TypeInv
  BY InitType, StepType, PTL DEF Spec
<1>2. Spec => []ReadyProjectionIsExact
  BY ReadinessIsHonest
<1> QED BY <1>1, <1>2, StepJoins, PTL DEF Spec, AutoJoinsOnlyDuplicate

-----------------------------------------------------------------------------
(* Refinement of the trust lifecycle *)

LEMMA InitLifecycle == Init => Lifecycle!Init
BY DEF Init, NoTarget, Lifecycle!Init, trustOf

(* How a row's trust can move. *)
TrustMoves(k) ==
    \/ trustOf(k)' = trustOf(k)
    \/ trustOf(k) = "absent" /\ trustOf(k)' \in PermissionLevels
    \/ /\ trustOf(k) \in PermissionLevels
       /\ \/ trustOf(k)' = "withdrawn"
          \/ /\ trustOf(k)' \in PermissionLevels
             /\ Broader(trustOf(k), trustOf(k)')

LEMMA TrustStep ==
    ASSUME NEW k \in Items, TrustMoves(k),
           \A j \in Items \ {k} : trustOf(j)' = trustOf(j)
    PROVE  [Lifecycle!Next]_([j \in Items |-> trustOf(j)])
<1> DEFINE before == [j \in Items |-> trustOf(j)]
           after == [j \in Items |-> trustOf(j)']
<1>1. after = [before EXCEPT ![k] = trustOf(k)']
  OBVIOUS
<1>2. CASE trustOf(k)' = trustOf(k)
  BY <1>2
<1>3. CASE trustOf(k) = "absent" /\ trustOf(k)' \in PermissionLevels
  <2>1. Lifecycle!Promote(k, trustOf(k)')
    BY <1>1, <1>3 DEF Lifecycle!Promote
  <2> QED BY <1>3, <2>1 DEF Lifecycle!Next, Lifecycle!PermissionLevels,
                            PermissionLevels
<1>4. CASE /\ trustOf(k) \in PermissionLevels
           /\ trustOf(k)' = "withdrawn"
  <2>1. Lifecycle!Withdraw(k)
    BY <1>1, <1>4 DEF Lifecycle!Withdraw, Lifecycle!Trusted,
                      Lifecycle!PermissionLevels, PermissionLevels
  <2> QED BY <2>1 DEF Lifecycle!Next
<1>5. CASE /\ trustOf(k) \in PermissionLevels
           /\ trustOf(k)' \in PermissionLevels
           /\ Broader(trustOf(k), trustOf(k)')
  <2>1. Lifecycle!Narrow(k, trustOf(k)')
    BY <1>1, <1>5 DEF Lifecycle!Narrow, Lifecycle!Trusted, Lifecycle!Broader,
                      Lifecycle!Rank, Broader, Rank,
                      Lifecycle!PermissionLevels, PermissionLevels
  <2> QED BY <1>5, <2>1 DEF Lifecycle!Next, Lifecycle!PermissionLevels,
                            PermissionLevels
<1> QED BY <1>2, <1>3, <1>4, <1>5 DEF TrustMoves

LEMMA StepLifecycle ==
    ASSUME TypeInv, [Next]_vars
    PROVE  [Lifecycle!Next]_([k \in Items |-> trustOf(k)])
<1> DEFINE Goal == [Lifecycle!Next]_([k \in Items |-> trustOf(k)])
<1>0. TypeOK
  BY DEF TypeInv
<1>1. ASSUME UNCHANGED target PROVE Goal
  BY <1>1 DEF trustOf
<1>2. CASE RebuildStep \/ RebuildFinish
  BY <1>1, <1>2 DEF RebuildStep, RebuildFinish, trusted
<1>3. ASSUME NEW i \in Items, ItemStep(i) PROVE Goal
  BY <1>1, <1>3 DEF ItemStep, trusted
<1>4. ASSUME NEW i \in Items, HumanApprove(i) \/ HumanApproveLegacy(i)
      PROVE  Goal
  <2>1. item[i].status = "pending_review" /\ target[i].status = "none"
    BY <1>4 DEF HumanApprove, HumanApproveLegacy, TypeInv, TargetsApproved
  <2>2. item[i].permission \in PermissionLevels
    BY <2>1 DEF TypeInv, ItemsJudged
  <2>3. /\ target'[i] = NewTarget(i)
        /\ \A j \in Items \ {i} : target'[j] = target[j]
    BY <1>0, <1>4 DEF HumanApprove, HumanApproveLegacy, TypeOK
  <2>4. trustOf(i) = "absent" /\ trustOf(i)' = item[i].permission
    BY <2>1, <2>3 DEF trustOf, NewTarget
  <2>5. TrustMoves(i)
    BY <2>2, <2>4 DEF TrustMoves
  <2>6. \A j \in Items \ {i} : trustOf(j)' = trustOf(j)
    BY <2>3 DEF trustOf
  <2> QED BY <2>5, <2>6, TrustStep
<1>5. ASSUME NEW i \in Items, NEW k \in Items, NEW visible,
             AutoApprove(i, k, visible)
      PROVE  Goal
  BY <1>1, <1>5 DEF AutoApprove
<1>6. ASSUME NEW i \in Items, RevokeEffect(i) PROVE Goal
  <2>0. PICK k \in Items : k = link[i].target
    BY <1>6, RevokeShape
  <2>1. target[k] \in [status : {"approved", "revoked"},
                      permission : PermissionLevels]
    BY <1>6, <2>0, RevokeShape
  <2>2. CASE target' = target
    BY <1>1, <2>2
  <2>3. CASE target' = [target EXCEPT ![k].status = "revoked"]
    <3>1. target'[k].status = "revoked"
            /\ \A j \in Items \ {k} : target'[j] = target[j]
      BY <1>0, <2>1, <2>3 DEF TypeOK
    <3>2. trustOf(k)' = "withdrawn"
      BY <3>1 DEF trustOf
    <3>3. trustOf(k) = "withdrawn" \/ trustOf(k) \in PermissionLevels
      BY <2>1 DEF trustOf
    <3>4. TrustMoves(k)
      BY <3>2, <3>3 DEF TrustMoves
    <3>5. \A j \in Items \ {k} : trustOf(j)' = trustOf(j)
      BY <3>1 DEF trustOf
    <3> QED BY <2>1, <3>4, <3>5, TrustStep
  <2> QED BY <1>6, <2>0, <2>2, <2>3, RevokeShape
<1>7. ASSUME NEW i \in Items, ReconcileNarrow(i) PROVE Goal
  <2>0. link[i] # None /\ recon.source \in Sources
    BY <1>0, <1>7 DEF ReconcileNarrow, TypeInv, PassAnchored, TypeOK, PassType
  <2>1. PICK k \in Items : k = link[i].target
    BY <2>0, NarrowedIs
  <2>2. PICK p \in PermissionLevels : p = Narrowed(i, recon.source)
    BY <2>0, NarrowedIs
  <2>3. /\ target[k].permission \in PermissionLevels
        /\ ~Broader(p, target[k].permission)
        /\ target' = [target EXCEPT ![k].permission = p]
    BY <1>7, <2>0, <2>1, <2>2, NarrowedIs DEF ReconcileNarrow
  <2>4. /\ target'[k].permission = p
        /\ target'[k].status = target[k].status
        /\ \A j \in Items \ {k} : target'[j] = target[j]
    BY <1>0, <2>3 DEF TypeOK, TargetType
  <2>5. TrustMoves(k)
    <3>1. CASE target[k].status = "approved"
      <4>1. trustOf(k) = target[k].permission /\ trustOf(k)' = p
        BY <2>4, <3>1 DEF trustOf
      <4>2. CASE Broader(target[k].permission, p)
        BY <2>3, <4>1, <4>2 DEF TrustMoves
      <4>3. CASE ~Broader(target[k].permission, p)
        <5>1. target[k].permission = p
          BY <2>3, <4>3, BroaderOrder
        <5> QED BY <4>1, <5>1 DEF TrustMoves
      <4> QED BY <4>2, <4>3
    <3>2. CASE target[k].status \in {"none", "revoked"}
      BY <2>4, <3>2 DEF trustOf, TrustMoves
    <3>3. target[k].status \in {"none", "approved", "revoked"}
      BY <1>0, <2>3 DEF TypeOK, TargetType
    <3> QED BY <3>1, <3>2, <3>3
  <2>6. \A j \in Items \ {k} : trustOf(j)' = trustOf(j)
    BY <2>4 DEF trustOf
  <2> QED BY <2>3, <2>5, <2>6, TrustStep
<1> QED
  BY <1>2, <1>3, <1>4, <1>5, <1>6, <1>7, StepCases

(* Every knowledge row lives the lifecycle TrustLifecycle promises: trusted  *)
(* once, only ever narrowed, never back after its withdrawal.                *)
THEOREM LifecycleHolds == Spec => RefinesTrustLifecycle
<1>1. Spec => []TypeInv
  BY InitType, StepType, PTL DEF Spec
<1>2. TypeInv /\ [Next]_vars
        => [Lifecycle!Next]_([k \in Items |-> trustOf(k)])
  BY StepLifecycle
<1> QED BY <1>1, <1>2, InitLifecycle, PTL
        DEF Spec, RefinesTrustLifecycle, Lifecycle!Spec

=============================================================================
