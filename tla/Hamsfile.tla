------------------------------- MODULE Hamsfile -------------------------------
(***************************************************************************)
(* The hamsfile of a provider and how it is edited and merged              *)
(* (internal/hamsfile).                                                    *)
(*                                                                         *)
(* A document has one section per tag; a section is the sequence of its    *)
(* entries, or NoList when the tag has a value that is no list (`cli:`     *)
(* with nothing under it).  A tag that is not in the file is an empty      *)
(* section.  An entry is the ID of a resource and a pin, which stands for  *)
(* its version and source fields.                                          *)
(*                                                                         *)
(* The loops of the code are recursive functions of how far they got.      *)
(***************************************************************************)
EXTENDS Naturals, SequencesExt

CONSTANTS
  TagOrder,    \* the tags, in the order in which they stand in the files
  NoList,      \* a section that is not a list
  Bare         \* no pin

Tags == ToSet(TagOrder)

ASSUME OrderAssumption == TagOrder \in Seq(Tags)

EmptyDoc == [t \in Tags |-> <<>>]

Entry(id, pin) == [id |-> id, pin |-> pin]

List(section) == IF section = NoList THEN <<>> ELSE section

IdsOf(section) == {e.id : e \in ToSet(List(section))}

(* What a document lists.                                                  *)
ListApps(doc) == UNION {IdsOf(doc[t]) : t \in Tags}

TagsOf(doc, id) == {t \in Tags : id \in IdsOf(doc[t])}

HasDuplicateApps(doc) == \E t, u \in Tags : t # u /\ IdsOf(doc[t]) \cap IdsOf(doc[u]) # {}

-----------------------------------------------------------------------------
(* Where a document has an ID: the place of its first entry.               *)
FirstIn(list, id) ==
  CHOOSE i \in DOMAIN list : list[i].id = id /\ \A j \in 1..(i - 1) : list[j].id # id

FirstTag(doc, id) ==
  CHOOSE i \in DOMAIN TagOrder :
    TagOrder[i] \in TagsOf(doc, id) /\ \A j \in 1..(i - 1) : TagOrder[j] \notin TagsOf(doc, id)

FindApp(doc, id) ==
  LET i == FirstTag(doc, id) IN [tag |-> i, index |-> FirstIn(doc[TagOrder[i]], id)]

(* One ID is listed before another.                                        *)
ListedBefore(doc, id, other) ==
  LET at == FindApp(doc, id)
      next == FindApp(doc, other)
  IN at.tag < next.tag \/ (at.tag = next.tag /\ at.index < next.index)

AppFields(doc, id) == LET at == FindApp(doc, id) IN doc[TagOrder[at.tag]][at.index].pin

-----------------------------------------------------------------------------
(* Editing.                                                                *)

SetField(doc, id, pin) ==
  LET at == FindApp(doc, id) IN [doc EXCEPT ![TagOrder[at.tag]][at.index].pin = pin]

(* An entry that is there, under whatever tag, takes over the fields that  *)
(* are given; a new one goes to the end of its tag, if that is a list.     *)
AddAppWithFields(doc, tag, id, pin) ==
  IF id \in ListApps(doc) THEN IF pin = Bare THEN doc ELSE SetField(doc, id, pin)
  ELSE IF doc[tag] = NoList THEN doc
  ELSE [doc EXCEPT ![tag] = Append(@, Entry(id, pin))]

AddApp(doc, tag, id) == AddAppWithFields(doc, tag, id, Bare)

RemoveAppField(doc, id) == IF id \in ListApps(doc) THEN SetField(doc, id, Bare) ELSE doc

(* The list without the entries of some IDs.                               *)
Without(list, ids) ==
  LET kept[n \in 0..Len(list)] ==
        IF n = 0 THEN <<>>
        ELSE IF list[n].id \in ids THEN kept[n - 1] ELSE Append(kept[n - 1], list[n])
  IN kept[Len(list)]

RemoveApps(doc, ids) ==
  [t \in Tags |-> IF doc[t] = NoList THEN NoList ELSE Without(doc[t], ids)]

RemoveApp(doc, id) == RemoveApps(doc, {id})

-----------------------------------------------------------------------------
(* Merging: tag by tag, what the local file says is added to, or put in    *)
(* place of, what the main file says.  A section of main that is no list   *)
(* stays as it is, whatever local has there.                               *)

(* A wrong merge, that drops what only the local file has.                 *)
OverrideOnly(list, e) ==
  [i \in DOMAIN list |-> IF list[i].id = e.id THEN e ELSE list[i]]

(* An entry takes the place of the first one with its ID.                  *)
Override(list, e) ==
  IF \E i \in DOMAIN list : list[i].id = e.id THEN [list EXCEPT ![FirstIn(list, e.id)] = e]
  ELSE Append(list, e)

MergeSequence(ms, ls) ==
  LET merged[n \in 0..Len(ls)] == IF n = 0 THEN ms ELSE Override(merged[n - 1], ls[n])
  IN merged[Len(ls)]

Merged(main, local, Combine(_, _)) ==
  [t \in Tags |-> IF main[t] = NoList \/ local[t] = NoList THEN main[t]
                  ELSE Combine(main[t], local[t])]

Appended(ms, ls) == ms \o ls
MergeAppend(main, local) == Merged(main, local, Appended)
MergeOverride(main, local) == Merged(main, local, MergeSequence)
=============================================================================
