----------------------------- MODULE FontFamily -----------------------------
(***************************************************************************)
(* TLFontFamily: the faces of its styles, and its subscriptions to them.   *)
(* A face is counted once for every place it has in a chain; the family    *)
(* connects to its "changed" signal when the count starts and disconnects  *)
(* when the count is erased.  The operations are split by whether the      *)
(* family emits "changed" itself, so that a client can follow them.        *)
(***************************************************************************)
EXTENDS FontChains, FiniteSets, SequencesExt

CONSTANTS
    Styles,    \* names, in upper case
    Supports,  \* per face: where unicode_scripts_supported puts it
    MaxFaces   \* bound on the faces of a chain

ASSUME SupportsAssumption ==
    Supports \in [Faces -> SUBSET Chains] /\ \A f \in Faces : IsFiniteSet(Supports[f])
ASSUME MaxFacesAssumption == MaxFaces \in Nat

VARIABLES
    styles,     \* the styles there are
    ref_count,  \* the faces that are counted, with their counts
    connected   \* the faces the family listens to

familyVars == <<styles, ref_count, connected>>

Data(s) == IF s \in DOMAIN styles THEN styles[s] ELSE NoFaces

FamilyInit ==
    /\ styles = <<>>
    /\ ref_count = <<>>
    /\ connected = {}

-----------------------------------------------------------------------------
(* Counting.  A register is a pair of counts and connections.              *)
Register == [ref_count |-> ref_count, connected |-> connected]
Registers(r) == ref_count' = r.ref_count /\ connected' = r.connected

Counting(r, f, n) ==
    [g \in DOMAIN r.ref_count \cup {f} |-> IF g = f THEN n ELSE r.ref_count[g]]

Count(r, f) == IF f \in DOMAIN r.ref_count THEN r.ref_count[f] ELSE 0

(* _inc_ref, n times.                                                      *)
IncRef(r, f, n) ==
    IF n = 0 THEN r
    ELSE [ref_count |-> Counting(r, f, Count(r, f) + n),
          connected |-> IF f \in DOMAIN r.ref_count THEN r.connected
                        ELSE r.connected \cup {f}]

(* Slip: the connection outlives the count.                                *)
DecRefConnected(r, f) ==
    IF f \in DOMAIN r.ref_count
    THEN [r EXCEPT !.ref_count = [g \in DOMAIN @ \ {f} |-> @[g]]]
    ELSE [r EXCEPT !.ref_count = Counting(r, f, -1)]


(* _dec_ref asks whether the face is counted, not how often: a counted     *)
(* face is forgotten, and one that is not counted gets the count -1.       *)
DecRef(r, f) ==
    IF f \in DOMAIN r.ref_count
    THEN [ref_count |-> [g \in DOMAIN r.ref_count \ {f} |-> r.ref_count[g]],
          connected |-> r.connected \ {f}]
    ELSE [r EXCEPT !.ref_count = Counting(r, f, -1)]

DecChain(r, chain) ==
    LET after[n \in 0 .. Len(chain)] ==
            IF n = 0 THEN r ELSE DecRef(after[n - 1], chain[n])
    IN  after[Len(chain)]

DecStyle(r, data) ==
    LET tags == SetToSeq(DOMAIN data)
        after[n \in 0 .. Len(tags)] ==
            IF n = 0 THEN r ELSE DecChain(after[n - 1], data[tags[n]])
    IN  after[Len(tags)]

-----------------------------------------------------------------------------
AddStyle(s) ==
    /\ s \notin DOMAIN styles
    /\ styles' = [t \in DOMAIN styles \cup {s} |-> Data(t)]
    /\ UNCHANGED <<ref_count, connected>>

WithChain(s, c, chain) ==
    [t \in DOMAIN styles \cup {s} |->
        IF t = s
        THEN [d \in DOMAIN Data(s) \cup {c} |-> IF d = c THEN chain ELSE Data(s)[d]]
        ELSE styles[t]]

(* add_script and add_language.                                            *)
AddTag(s, c) ==
    /\ s \in DOMAIN styles
    /\ c \notin DOMAIN styles[s]
    /\ styles' = WithChain(s, c, <<>>)
    /\ UNCHANGED <<ref_count, connected>>

(* remove_script and remove_language.                                      *)
RemoveTag(s, c) ==
    /\ s \in DOMAIN styles
    /\ c \in DOMAIN styles[s] \ {Main}
    /\ styles' = [styles EXCEPT ![s] = [d \in DOMAIN styles[s] \ {c} |-> styles[s][d]]]
    /\ Registers(DecChain(Register, styles[s][c]))

RemoveStyle(s) ==
    /\ styles' = [t \in DOMAIN styles \ {s} |-> styles[t]]
    /\ Registers(DecStyle(Register, Data(s)))

(* A face goes to the end of some chains, as often as it is counted:       *)
(* add_face to what the face supports, add_face_unlinked to the main       *)
(* chain, add_face_for_script and add_face_for_language to a linked one.   *)
AddTo(s, chains, f) ==
    /\ \A c \in chains : Len(LinkedChain(Data(s), c)) < MaxFaces
    /\ styles' =
           IF chains = {} THEN styles
           ELSE [t \in DOMAIN styles \cup {s} |->
                    IF t = s
                    THEN [d \in DOMAIN Data(s) \cup chains |->
                             IF d \in chains THEN Append(LinkedChain(Data(s), d), f)
                             ELSE Data(s)[d]]
                    ELSE styles[t]]
    /\ Registers(IncRef(Register, f, Cardinality(chains)))

AddFace(s, f) == AddTo(s, Supports[f], f)
AddFaceUnlinked(s, f) == AddTo(s, {Main}, f)
AddFaceFor(s, c, f) == AddTo(s, {c}, f)

(* _set of a property style/index, style/script/tag/index or               *)
(* style/lang/tag/index: the place behind the chain appends, a place in it *)
(* replaces, and null there removes.                                       *)
SetFace(s, c, k, f) ==
    /\ k \in DOMAIN LinkedChain(Data(s), c)
    /\ styles' = WithChain(s, c, [Data(s)[c] EXCEPT ![k] = f])
    /\ Registers(IncRef(DecRef(Register, Data(s)[c][k]), f, 1))

SetFaceToNull(s, c, k) ==
    /\ k \in DOMAIN LinkedChain(Data(s), c)
    /\ styles' = WithChain(s, c, RemoveAt(Data(s)[c], k))
    /\ Registers(DecRef(Register, Data(s)[c][k]))

(* A place that is none, or null behind the chain: the style and the chain *)
(* are made, and no signal is emitted.                                     *)
SetNowhere(s, c) ==
    /\ styles' = WithChain(s, c, LinkedChain(Data(s), c))
    /\ UNCHANGED <<ref_count, connected>>

(* A face emits "changed": _font_changed, if the family is connected.      *)
FaceChanged(f) == f \in connected /\ UNCHANGED familyVars
FaceChangedUnheard(f) == f \notin connected /\ UNCHANGED familyVars

FamilyEmits ==
    \/ \E s \in Styles :
           \/ AddStyle(s)
           \/ RemoveStyle(s)
           \/ \E c \in Tags : AddTag(s, c) \/ RemoveTag(s, c)
           \/ \E f \in Faces :
                  \/ AddFace(s, f)
                  \/ AddFaceUnlinked(s, f)
                  \/ \E c \in Tags : AddFaceFor(s, c, f)
           \/ \E c \in Chains, k \in 1 .. MaxFaces :
                  \/ SetFaceToNull(s, c, k)
                  \/ \E f \in Faces : SetFace(s, c, k, f)
    \/ \E f \in Faces : FaceChanged(f)

-----------------------------------------------------------------------------
Places(f) ==
    {p \in (DOMAIN styles) \X Chains \X (1 .. MaxFaces) :
        /\ p[3] \in DOMAIN LinkedChain(styles[p[1]], p[2])
        /\ styles[p[1]][p[2]][p[3]] = f}

(* The count is the number of places, unless a face with several has lost  *)
(* one of them.                                                            *)
IsCounted(f) == Cardinality(Places(f)) = Count(Register, f)

FamilyTypeOK ==
    /\ DOMAIN styles \subseteq Styles
    /\ \A s \in DOMAIN styles : IsStyle(styles[s])
    /\ DOMAIN ref_count \subseteq Faces
    /\ \A f \in DOMAIN ref_count : ref_count[f] \in Int
    /\ connected \subseteq DOMAIN ref_count

(* The family listens to no face it does not have, and as long as the      *)
(* count of a face is right, it listens to the face if it has it.  Removing*)
(* one of several places of a face breaks the count (line 519).            *)
SubscriptionsAreExact ==
    \A f \in Faces :
        /\ f \in connected => Places(f) # {}
        /\ IsCounted(f) /\ Places(f) # {} => f \in connected
=============================================================================
