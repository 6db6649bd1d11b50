---------------------------- MODULE DirtyTracker ----------------------------
(***************************************************************************)
(* DirtyTracker, packages/database/src/batch/dirty-tracker.ts: which       *)
(* objects, and which of their fields, have changes no save has covered.   *)
(* An object marked without fields is dirty as a whole, which the tracker  *)
(* records as an empty set of fields.  changed and dropped are history:    *)
(* the changes themselves, and the objects the tracker gave up on.         *)
(***************************************************************************)
EXTENDS Naturals, FiniteSets

CONSTANTS
  Object,             \* object ids
  Field,              \* field names
  Priority,           \* priority levels
  MaxTrackedObjects,  \* config.maxTrackedObjects
  MaxMarks            \* bound on the calls of markDirty of a behaviour

ASSUME TrackerAssumption ==
  /\ Field # {}
  /\ Priority \subseteq Nat
  /\ MaxTrackedObjects \in Nat \ {0}
  /\ MaxMarks \in Nat

VARIABLES
  dirty,    \* the DirtyState of each object, Clean when it is not in the map
  changed,  \* history: the fields with a change that was not saved
  manner,   \* history: how each object was marked and cleared since it was last clean
  dropped,  \* history: objects evicted or aged out with changes not saved
  marks     \* calls of markDirty so far, the clock of firstDirtyAt

vars == <<dirty, changed, manner, dropped, marks>>

-----------------------------------------------------------------------------
Clean == [fields |-> {}, priority |-> 0, since |-> 0]

DirtyState == [fields : SUBSET Field, priority : Nat, since : Nat]

Tracked == {o \in Object : dirty[o].since > 0}

\* isFieldDirty, for every field of an object.
DirtyFields(o) ==
  IF o \notin Tracked THEN {}
  ELSE IF dirty[o].fields = {} THEN Field ELSE dirty[o].fields

Init ==
  /\ dirty = [o \in Object |-> Clean]
  /\ changed = [o \in Object |-> {}]
  /\ manner = [o \in Object |-> {}]
  /\ dropped = {}
  /\ marks = 0

-----------------------------------------------------------------------------
HowMarked(fs) == IF fs = {} THEN "whole" ELSE "fields"

LowestPriority == {o \in Tracked : \A p \in Tracked : dirty[o].priority <= dirty[p].priority}

\* evictOldest: of the objects of the lowest priority the oldest tenth goes,
\* at least one.
Evictions ==
  {gone \in SUBSET LowestPriority :
     /\ Cardinality(gone) = IF Cardinality(LowestPriority) < 20 THEN 1
                            ELSE Cardinality(LowestPriority) \div 10
     /\ \A o \in gone, p \in LowestPriority \ gone : dirty[o].since < dirty[p].since}

\* Objects leave the map; the history is kept of those that had changes.
Forgotten(gone) == dropped \cup {o \in gone : changed[o] # {}}

MarkTracked(o, fs, p) ==
  /\ o \in Tracked
  /\ dirty' = [dirty EXCEPT ![o].fields = @ \cup fs,
                            ![o].priority = IF p > @ THEN p ELSE @]
  /\ UNCHANGED dropped

MarkNew(o, fs, p) ==
  /\ o \notin Tracked
  /\ \E gone \in IF Cardinality(Tracked) >= MaxTrackedObjects THEN Evictions ELSE {{}} :
       /\ dirty' = [q \in Object |->
            IF q = o THEN [fields |-> fs, priority |-> p, since |-> marks + 1]
            ELSE IF q \in gone THEN Clean ELSE dirty[q]]
       /\ dropped' = Forgotten(gone)

\* markDirty, with the fields that changed or, when fs is empty, the object
\* as a whole.
MarkDirty(o, fs, p) ==
  /\ marks < MaxMarks
  /\ MarkTracked(o, fs, p) \/ MarkNew(o, fs, p)
  /\ marks' = marks + 1
  /\ changed' = [changed EXCEPT ![o] = @ \cup IF fs = {} THEN Field ELSE fs]
  /\ manner' = [manner EXCEPT ![o] = @ \cup {HowMarked(fs)}]

Saved(os) ==
  /\ changed' = [o \in Object |-> IF o \in os THEN {} ELSE changed[o]]
  /\ manner' = [o \in Object |-> IF o \in os THEN {} ELSE manner[o]]
  /\ dropped' = dropped \ os
  /\ UNCHANGED marks

\* clearDirty of whole objects, clearDirtyBatch and clearAll: their callers
\* have saved what was dirty.
ClearDirty(os) ==
  /\ os # {} /\ os \subseteq Tracked
  /\ dirty' = [o \in Object |-> IF o \in os THEN Clean ELSE dirty[o]]
  /\ Saved(os)

\* Mutant: clearing one field takes the object out of the map.
ClearObject(o, fs) == [dirty EXCEPT ![o] = Clean]

\* clearDirty: the object goes when no field remains, also one that was
\* dirty as a whole.
WithoutFields(o, fs) ==
  [dirty EXCEPT ![o] = IF dirty[o].fields \subseteq fs THEN Clean
                       ELSE [dirty[o] EXCEPT !.fields = @ \ fs]]

\* clearDirty of the fields that were saved.
ClearFields(o, fs) ==
  /\ o \in Tracked /\ fs # {}
  /\ dirty' = WithoutFields(o, fs)
  /\ changed' = [changed EXCEPT ![o] = @ \ fs]
  /\ manner' = [manner EXCEPT ![o] = IF changed'[o] = {} THEN {} ELSE @ \cup {"fields"}]
  /\ dropped' = {q \in dropped : changed'[q] # {}}
  /\ UNCHANGED marks

UpdatePriority(o, p) ==
  /\ o \in Tracked
  /\ dirty' = [dirty EXCEPT ![o].priority = p]
  /\ UNCHANGED <<changed, manner, dropped, marks>>

OlderThan(cutoff) == {o \in Tracked : dirty[o].since < cutoff}

\* cleanup, on its timer when autoCleanup is set: the objects first marked
\* longer than maxAge ago.
Cleanup(cutoff) ==
  /\ OlderThan(cutoff) # {}
  /\ dirty' = [o \in Object |-> IF o \in OlderThan(cutoff) THEN Clean ELSE dirty[o]]
  /\ dropped' = Forgotten(OlderThan(cutoff))
  /\ UNCHANGED <<changed, manner, marks>>

\* shutdown: the map is emptied, whatever it holds.
Shutdown ==
  /\ Tracked # {}
  /\ dirty' = [o \in Object |-> Clean]
  /\ dropped' = Forgotten(Tracked)
  /\ UNCHANGED <<changed, manner, marks>>

Next ==
  \/ \E o \in Object, fs \in SUBSET Field, p \in Priority : MarkDirty(o, fs, p)
  \/ \E os \in SUBSET Object : ClearDirty(os)
  \/ \E o \in Object, fs \in SUBSET Field : ClearFields(o, fs)
  \/ \E o \in Object, p \in Priority : UpdatePriority(o, p)
  \/ \E cutoff \in 1 .. MaxMarks : Cleanup(cutoff)
  \/ Shutdown

Spec == Init /\ [][Next]_vars

-----------------------------------------------------------------------------
(* Properties. *)

TypeOK ==
  /\ dirty \in [Object -> DirtyState]
  /\ changed \in [Object -> SUBSET Field]
  /\ manner \in [Object -> SUBSET {"whole", "fields"}]
  /\ dropped \subseteq Object
  /\ marks \in Nat

\* A change that was not saved is reported as dirty, unless its object was
\* given up by eviction, age or shutdown, or was handled both as a whole and
\* by field: an object that stays within one manner is never forgotten.
ChangedIsDirty ==
  \A o \in Object \ dropped :
    manner[o] # {"whole", "fields"} => changed[o] \subseteq DirtyFields(o)
=============================================================================
