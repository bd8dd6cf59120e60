----------------------------- MODULE DeviceTree -----------------------------
(* FdtClientDxe: what its protocol answers about a flattened device tree t, and what it makes of one.    *)
(*                                                                                                       *)
(* A tree is the sequence of its nodes in the order of the blob.  A node has a name, its depth and its   *)
(* properties.  Drivers hold nodes by offset: every change moves the nodes behind it, and an offset at   *)
(* which no node starts is refused by libfdt.                                                            *)
EXTENDS Integers, FiniteSets, SequencesExt, FiniteSetsExt

CONSTANT Space   \* words of the block that holds the tree, padding included

----------------------------------------------------------------------------
(* libfdt. *)

\* Only what drivers write differs in length: an address has two words, "disabled" has one more than "okay".
\* The name of a property is kept once for the whole tree; only the names of addresses may be new to it.
Words(p, v) == CASE p \in {"mac-address", "local-mac-address"} -> 2
                 [] p = "status" -> IF v = "disabled" THEN 3 ELSE 2
                 [] OTHER -> 1
Cells(n) == 4 + FoldSet(LAMBDA p, sum : sum + 3 + Words(p, n.props[p]), 0, DOMAIN n.props)
Names(t) == UNION {DOMAIN t[i].props : i \in DOMAIN t}
Strings(t) == (IF "mac-address" \in Names(t) THEN 3 ELSE 0) + (IF "local-mac-address" \in Names(t) THEN 5 ELSE 0)
Starts(t) == LET at[i \in 0..Len(t)] == IF i = 0 THEN <<0>> ELSE LET s == at[i - 1] IN Append(s, s[i] + Cells(t[i]))
             IN at[Len(t)]
TreeSize(t) == Starts(t)[Len(t) + 1] + Strings(t)

NoNode == -1
At(t, o) == LET s == Starts(t) IN {i \in DOMAIN t : s[i] = o}
First(t, s) == IF s = {} THEN NoNode ELSE Starts(t)[Min(s)]
After(t, o) == LET s == At(t, o) IN IF o = NoNode THEN DOMAIN t ELSE {j \in DOMAIN t : \E i \in s : j > i}
Below(t, i) == {j \in DOMAIN t : j > i /\ \A k \in i + 1 .. j : t[k].depth > t[i].depth}
Path(t, name) == First(t, {i \in DOMAIN t : t[i].name = name})

----------------------------------------------------------------------------
(* The protocol.  A getter answers NotFound, a search NoNode, for EFI_NOT_FOUND. *)

Has(t, o, p) == \E i \in At(t, o) : p \in DOMAIN t[i].props
GetNodeProperty(t, o, p) == t[CHOOSE i \in At(t, o) : TRUE].props[p]

Enabled(n) == "status" \in DOMAIN n.props => n.props["status"] = "okay"
IsNodeEnabled(t, o) == \A i \in At(t, o) : Enabled(t[i])

\* EFI_DEVICE_ERROR leaves the tree as it was.
SetNodeProperty(t, o, p, v) ==
  IF At(t, o) = {} THEN t
  ELSE LET u == [t EXCEPT ![Min(At(t, o))].props = (p :> v) @@ @] IN IF TreeSize(u) <= Space THEN u ELSE t

\* What libfdt answers to these two is ignored.
DeleteProperty(t, o, p) ==
  IF At(t, o) = {} THEN t ELSE [t EXCEPT ![Min(At(t, o))].props = RestrictDomain(@, LAMBDA q : q # p)]
DeleteNode(t, o) ==
  IF At(t, o) = {} THEN t
  ELSE LET i == Min(At(t, o)) IN SubSeq(t, 1, i - 1) \o SubSeq(t, i + 1 + Cardinality(Below(t, i)), Len(t))

FindNextCompatibleNode(t, compatible, prev) ==
  First(t, {i \in After(t, prev) : "compatible" \in DOMAIN t[i].props /\ compatible \in t[i].props["compatible"]})
FindCompatibleNode(t, compatible) == FindNextCompatibleNode(t, compatible, 0)
FindNextSubnode(t, name, o) ==
  First(t, UNION {{j \in Below(t, i) : t[j].depth = t[i].depth + 1 /\ t[j].name = name} : i \in At(t, o)})
FindNodeByPhandle(t, h) == First(t, {i \in DOMAIN t : "phandle" \in DOMAIN t[i].props /\ t[i].props["phandle"] = h})
FindParentNode(t, o) ==
  First(t, UNION {{j \in 1 .. i - 1 : i \in Below(t, j) /\ t[j].depth = t[i].depth - 1} : i \in At(t, o)})
FindNodeByAlias(t, alias) ==
  LET a == Path(t, "aliases") IN
  IF ~Has(t, a, alias) \/ Path(t, GetNodeProperty(t, a, alias)) <= 0 THEN NoNode
  ELSE Path(t, GetNodeProperty(t, a, alias))

\* Mutant: a node whose reg makes no sense ends the walk.
FindNextMemoryNodeRegStops(t, prev) ==
  LET o == First(t, {i \in After(t, prev) : "device_type" \in DOMAIN t[i].props /\ t[i].props["device_type"] = "memory"})
  IN IF IsNodeEnabled(t, o) /\ Has(t, o, "reg") /\ Len(GetNodeProperty(t, o, "reg")) % 2 = 0 THEN o ELSE NoNode
\* A reg is a sequence of 64-bit words: bases and sizes.
FindNextMemoryNodeReg(t, prev) ==
  First(t, {i \in After(t, prev) :
              /\ Enabled(t[i])
              /\ "device_type" \in DOMAIN t[i].props /\ t[i].props["device_type"] = "memory"
              /\ "reg" \in DOMAIN t[i].props /\ Len(t[i].props["reg"]) % 2 = 0})
FindMemoryNodeReg(t) == FindNextMemoryNodeReg(t, 0)
=============================================================================
