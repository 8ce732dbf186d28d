----------------------------- MODULE GuiPatches -----------------------------
(***************************************************************************)
(* The patch list of the GUI: patches_ of MainWindow (gui/mainwindow.cpp), *)
(* which the patch editor (gui/widgets/patch_editor.cpp) and the hex       *)
(* viewer (gui/widgets/hex_viewer.cpp) change, and the patches in the      *)
(* FPGA, which the main window replaces and reads back.                    *)
(*                                                                         *)
(* Qt runs everything in one thread, one event at a time; an event is one  *)
(* action, with the signals that it emits.  A modal dialog runs an event   *)
(* loop of its own: the user can do nothing else, but the timer of the hex *)
(* viewer still fires.  Only the edit dialog keeps something of the time   *)
(* when it was opened; the others are one action, when they are accepted.  *)
(*                                                                         *)
(* Every patch of the GUI is enabled.  A patch in the FPGA is its address  *)
(* and its bytes; what an upload does to it and what a dump makes of it is *)
(* said by SpiService.  Bytes are those of the Flash image ("orig") or     *)
(* values the user has chosen.                                             *)
(***************************************************************************)
EXTENDS Integers, Sequences, FiniteSetsExt, Folds

CONSTANTS Addrs,    \* addresses the user modifies
          Values,   \* values of modified bytes
          Manual,   \* patches the user enters in the patch dialog
          MaxGap,   \* MAX_GAP of calculateOptimizedPatches
          MaxSize,  \* MAX_PATCH_SIZE of calculateOptimizedPatches
          MaxAuto,  \* patches the hex viewer makes at most: 8
          MaxHw,    \* MAX_PATCHES_PER_BUFFER
          MaxList,  \* bound: patches in the list
          MaxHand   \* bound: changes of the list other than by byte edits

Bytes == Values \cup {"orig"}
AnyByte ==
    Bytes \cup UNION {{p.bytes[k] : k \in 1..Len(p.bytes)} : p \in Manual}

\* The id of a patch is a number of four bits.
Patches == [id : 0..15, at : Nat, bytes : Seq(AnyByte)]

ASSUME GuiAssumption ==
    /\ Addrs \subseteq Nat /\ IsFiniteSet(Addrs) /\ "orig" \notin Values
    /\ Manual \subseteq Patches
    /\ {MaxGap, MaxSize, MaxList, MaxHand} \subseteq Nat /\ MaxSize > 0
    /\ MaxAuto \in 0..16 /\ MaxHw \in 1..16

VARIABLES
    connected, \* isConnected_
    patches,   \* patches_, and patchCache_ of the editor's table
    fpga,      \* the patches in the FPGA
    mods,      \* mods[a]: the byte in modifiedBytes_, or "orig" for none
    timer,     \* autoApplyTimer_ is running
    autoIds,   \* autoCreatedPatchIds_
    selected,  \* the patch an open edit dialog is for, or NoKey
    stale,     \* the table was refreshed while the edit dialog is open
    hand       \* history: changes of the list other than by byte edits

editor == <<selected, stale>>
vars == <<connected, patches, fpga, mods, timer, autoIds, editor, hand>>

\* What the edit dialog looks a patch up by: its id and its address.
NoKey == <<>>
Key(p) == <<p.id, p.at>>

Editing == selected # NoKey

Content(p) == [at |-> p.at, bytes |-> p.bytes]
Contents(ps) == [i \in 1..Len(ps) |-> Content(ps[i])]

TypeOK ==
    /\ connected \in BOOLEAN /\ timer \in BOOLEAN
    /\ patches \in Seq(Patches)
    /\ fpga \in Seq([at : Nat, bytes : Seq(AnyByte)]) /\ Len(fpga) <= MaxHw
    /\ mods \in [Addrs -> Bytes]
    /\ autoIds \subseteq 0..(MaxAuto - 1)
    /\ stale \in BOOLEAN /\ hand \in 0..MaxHand
    \* The patch an edit dialog shows is in the list while its pointer is good.
    /\ Editing /\ ~stale =>
          \E i \in 1..Len(patches) : Key(patches[i]) = selected

Init ==
    /\ connected = FALSE
    /\ patches = <<>>
    /\ fpga \in {<<>>} \cup {<<Content(p)>> : p \in Manual}
    /\ mods = [a \in Addrs |-> "orig"]
    /\ timer = FALSE /\ autoIds = {}
    /\ selected = NoKey /\ stale = FALSE
    /\ hand = 0

-----------------------------------------------------------------------------
(* calculateOptimizedPatches.                                              *)

Modified == {a \in Addrs : mods[a] # "orig"}

Last(s) == s[Len(s)]
Front(s) == SubSeq(s, 1, Len(s) - 1)

\* Fault: the size of a group is not looked at.
JoinsAnySize(g, a) == a - (g.to + 1) <= MaxGap

\* Address a joins the group g before it.
Joins(g, a) == a - (g.to + 1) <= MaxGap /\ a - g.from + 1 <= MaxSize

\* The modified addresses in groups, from the lowest to the highest.
Groups ==
    LET add(a, gs) ==
            IF gs # <<>> /\ Joins(Last(gs), a)
            THEN Append(Front(gs), [Last(gs) EXCEPT !.to = a])
            ELSE Append(gs, [from |-> a, to |-> a])
    IN  MapThenFoldSet(add, <<>>, LAMBDA a : a, Max, Modified)

Covers(p, a) == a \in p.at..(p.at + Len(p.bytes) - 1)

\* getByteValue: modified bytes come first, then the first patch.
ByteValue(a) ==
    IF a \in Modified THEN mods[a]
    ELSE LET over == {i \in 1..Len(patches) : Covers(patches[i], a)}
         IN  IF over = {} THEN "orig"
             ELSE LET p == patches[Min(over)] IN p.bytes[a - p.at + 1]

Optimized ==
    [i \in 1..Len(Groups) |->
        [id |-> i - 1, at |-> Groups[i].from,
         bytes |-> [k \in 1..(Groups[i].to - Groups[i].from + 1) |->
                        ByteValue(Groups[i].from + k - 1)]]]

-----------------------------------------------------------------------------
(* The main window and the FPGA.                                           *)

\* Fault: every patch read back gets the number after the last one.
NumberedOn(ps) == [i \in 1..Len(ps) |->
                      [id |-> i, at |-> ps[i].at, bytes |-> ps[i].bytes]]

\* refreshPatchesFromFPGA numbers what it reads.
Numbered(ps) == [i \in 1..Len(ps) |->
                    [id |-> i - 1, at |-> ps[i].at, bytes |-> ps[i].bytes]]

\* uploadPatchBuffer of the list, and the refresh "to confirm".  Either may
\* fail; an upload that is reported to have failed may have been done.
Upload(list) ==
    \/ /\ Len(list) <= MaxHw
       /\ fpga' = Contents(list)
       /\ patches' \in {list, Numbered(Contents(list))}
    \/ UNCHANGED fpga /\ patches' = list

\* Connecting reads no patches: refreshPatchesFromFPGA still finds
\* isConnected_ false.
Connect ==
    /\ ~Editing /\ ~connected
    /\ connected' = TRUE
    /\ UNCHANGED <<patches, fpga, mods, timer, autoIds, editor, hand>>

Disconnect ==
    /\ ~Editing /\ connected
    /\ connected' = FALSE
    /\ UNCHANGED <<patches, fpga, mods, timer, autoIds, editor, hand>>

\* A change of the list that the user makes himself.
ByHand == ~Editing /\ hand < MaxHand /\ hand' = hand + 1

\* onRefreshPatches, when the dump succeeds.
Refresh ==
    /\ ByHand /\ connected
    /\ patches' = Numbered(fpga)
    /\ UNCHANGED <<connected, fpga, mods, timer, autoIds, editor>>

ApplyAll ==
    /\ ~Editing /\ connected
    /\ Upload(patches)
    /\ UNCHANGED <<connected, mods, timer, autoIds, editor, hand>>

\* onClearPatches: the list is emptied whether or not the FPGA is, the
\* hex viewer's ids are kept.
Clear ==
    /\ ByHand /\ connected
    /\ Upload(<<>>)
    /\ UNCHANGED <<connected, mods, timer, autoIds, editor>>

-----------------------------------------------------------------------------
(* The patch editor.                                                       *)

Add(p) ==
    /\ ByHand /\ Len(patches) < MaxList
    /\ patches' = Append(patches, p)
    /\ UNCHANGED <<connected, fpga, mods, timer, autoIds, editor>>

\* The first patch with the id and the address of the one that is meant.
FirstAlike(key) == Min({i \in 1..Len(patches) : Key(patches[i]) = key})

Remove(i) ==
    /\ ByHand
    /\ LET n == FirstAlike(Key(patches[i]))
       IN  patches' = SubSeq(patches, 1, n - 1)
                      \o SubSeq(patches, n + 1, Len(patches))
    /\ UNCHANGED <<connected, fpga, mods, timer, autoIds, editor>>

\* The edit dialog keeps a pointer into patchCache_.
OpenEdit(i) ==
    /\ ByHand
    /\ selected' = Key(patches[i])
    /\ UNCHANGED <<connected, patches, fpga, mods, timer, autoIds, stale>>

Edit(p) ==
    /\ Editing /\ ~stale
    /\ patches' = [patches EXCEPT ![FirstAlike(selected)] = p]
    /\ selected' = NoKey
    /\ UNCHANGED <<connected, fpga, mods, timer, autoIds, stale, hand>>

\* The table was refreshed under the dialog: whatever the pointer now points
\* at decides which patch is replaced, if one is.
EditStale(p) ==
    /\ Editing /\ stale
    /\ \/ UNCHANGED patches
       \/ \E i \in 1..Len(patches) :
             patches' = [patches EXCEPT ![FirstAlike(Key(patches[i]))] = p]
    /\ selected' = NoKey /\ stale' = FALSE
    /\ UNCHANGED <<connected, fpga, mods, timer, autoIds, hand>>

Cancel ==
    /\ Editing
    /\ selected' = NoKey /\ stale' = FALSE
    /\ UNCHANGED <<connected, patches, fpga, mods, timer, autoIds, hand>>

-----------------------------------------------------------------------------
(* The hex viewer.                                                         *)

\* setByteValue; the value of the image removes the modification.  The timer
\* is started again.
SetByte(a, v) ==
    /\ ~Editing
    /\ mods' = [mods EXCEPT ![a] = v]
    /\ timer' = TRUE
    /\ UNCHANGED <<connected, patches, fpga, autoIds, editor, hand>>

\* clearModifications, and setFlashData: another image, a dump.
ClearModifications ==
    /\ ~Editing
    /\ mods' = [a \in Addrs |-> "orig"]
    /\ timer' = TRUE
    /\ UNCHANGED <<connected, patches, fpga, autoIds, editor, hand>>

\* onApplyModifications: the button.
ApplyModifications ==
    /\ ByHand /\ Modified # {}
    /\ Len(Groups) <= MaxAuto /\ Len(patches) + Len(Groups) <= MaxList
    /\ patches' = patches \o Optimized
    /\ UNCHANGED <<connected, fpga, mods, timer, autoIds, editor>>

\* Slot of clearAutoPatches.
Without(ids) ==
    MapThenFoldSet(LAMBDA p, list : Append(list, p), <<>>,
                   LAMBDA i : patches[i], Max,
                   {i \in 1..Len(patches) : patches[i].id \notin ids})

\* Every signal to the main window refreshes the table.
Refreshed == stale' = (stale \/ Editing)

\* No modifications remain: the FPGA keeps the patches.
AutoClear ==
    /\ timer /\ Modified = {}
    /\ timer' = FALSE
    /\ patches' = Without(autoIds) /\ autoIds' = {}
    /\ IF autoIds = {} THEN UNCHANGED stale ELSE Refreshed
    /\ UNCHANGED <<connected, fpga, mods, selected, hand>>

AutoTooMany ==
    /\ timer /\ Len(Groups) > MaxAuto
    /\ timer' = FALSE
    /\ UNCHANGED <<connected, patches, fpga, mods, autoIds, editor, hand>>

\* Fault: the new patches come before those with the old ids go.
AutoApplyClearLast ==
    /\ timer /\ Modified # {} /\ Len(Groups) <= MaxAuto
    /\ timer' = FALSE
    /\ LET list == SelectSeq(patches \o Optimized,
                             LAMBDA p : p.id \notin autoIds)
       IN  /\ Len(list) <= MaxList
           /\ IF connected THEN Upload(list)
              ELSE patches' = list /\ UNCHANGED fpga
    /\ autoIds' = 0..(Len(Groups) - 1)
    /\ Refreshed
    /\ UNCHANGED <<connected, mods, selected, hand>>

\* The patches with the ids of the last time go, the new ones come.
AutoApply ==
    /\ timer /\ Modified # {} /\ Len(Groups) <= MaxAuto
    /\ timer' = FALSE
    /\ LET list == Without(autoIds) \o Optimized
       IN  /\ Len(list) <= MaxList
           /\ IF connected THEN Upload(list)
              ELSE patches' = list /\ UNCHANGED fpga
    /\ autoIds' = 0..(Len(Groups) - 1)
    /\ Refreshed
    /\ UNCHANGED <<connected, mods, selected, hand>>

-----------------------------------------------------------------------------

Next ==
    \/ Connect \/ Disconnect \/ Refresh \/ ApplyAll \/ Clear
    \/ Cancel
    \/ \E p \in Manual : Add(p) \/ Edit(p) \/ EditStale(p)
    \/ \E i \in 1..Len(patches) : OpenEdit(i) \/ Remove(i)
    \/ \E a \in Addrs, v \in Bytes : SetByte(a, v)
    \/ ClearModifications \/ ApplyModifications
    \/ AutoClear \/ AutoTooMany \/ AutoApply

Spec == Init /\ [][Next]_vars

-----------------------------------------------------------------------------
(* What the code promises.                                                 *)

\* "Group into patches (split on gaps > 8 bytes, max 256 bytes/patch)"
\* (hex_viewer.cpp:856), and no more of them than that takes: the FPGA has
\* room for eight.
WithinRules(r) ==
    /\ r.to - r.from < MaxSize
    /\ \A a \in Modified \cap (r.from..(r.to - 1)) :
          \E b \in Modified \cap ((a + 1)..r.to) : b - a - 1 <= MaxGap

GroupsExact ==
    LET ranges == {r \in [from : Modified, to : Modified] :
                      r.from <= r.to /\ WithinRules(r)}
        covers(rs) == \A a \in Modified : \E r \in rs : a \in r.from..r.to
        made == {Groups[i] : i \in 1..Len(Groups)}
    IN  /\ made \subseteq ranges /\ covers(made)
        /\ \A i \in 1..(Len(Groups) - 1) : Groups[i].to < Groups[i + 1].from
        /\ \A rs \in kSubset(Len(Groups) - 1, ranges) : ~covers(rs)

\* When the timer fires, every modified byte gets into the list with the
\* value it was given, and into the FPGA if that is changed: through the
\* grouping, the exchange of the old patches for the new ones, the upload
\* and what is read back, whatever else is in the list.  No byte gets to an
\* address it does not belong to: apart from the bytes of the image and of
\* the patches the user entered, there are his values where he chose them.
Fired == timer /\ ~timer' /\ Len(Groups) <= MaxAuto

BytesOf(ps) == UNION {{<<ps[i].at + k - 1, ps[i].bytes[k]>> :
                          k \in 1..Len(ps[i].bytes)} : i \in 1..Len(ps)}

Given == (Addrs \X Values) \cup UNION {BytesOf(<<p>>) : p \in Manual}

AutoApplyComplete ==
    [][Fired =>
          /\ {<<a, mods[a]>> : a \in Modified} \subseteq BytesOf(patches')
          /\ fpga' # fpga =>
                {<<a, mods[a]>> : a \in Modified} \subseteq BytesOf(fpga')
          /\ \A b \in BytesOf(patches') \cup BytesOf(fpga') :
                b[2] # "orig" => b \in Given]_vars

\* As long as the user edits bytes only, the patches of one auto-apply
\* replace those of the one before: none is left over, whether connected or
\* not and whatever failed, although the list is numbered anew in between.
AutoApplyReplaces ==
    [][Fired /\ hand = 0 => Len(patches') = Len(Groups)]_vars

-----------------------------------------------------------------------------
(* A statement the code does not keep.                                     *)

\* "Clear previous auto-created patches before adding new ones"
\* (hex_viewer.cpp:984): the patches the user has entered stay.
ManualStays ==
    [][Fired => \A p \in Manual :
          BytesOf(<<p>>) \subseteq BytesOf(patches)
              => BytesOf(<<p>>) \subseteq BytesOf(patches')]_vars
=============================================================================
