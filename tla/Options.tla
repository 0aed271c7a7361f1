------------------------------- MODULE Options -------------------------------
(***************************************************************************)
(* The options of the agent's modules and actions: what nf_cfg_option_*    *)
(* (module/module_cfg_option.c) and nf_cfg_choice_*                        *)
(* (module/module_cfg_choice.c) do to them and to the memory of their      *)
(* values.  A title or a description is never changed and is left out.     *)
(***************************************************************************)
EXTENDS Naturals, Sequences, SequencesExt, FiniteSetsExt

CONSTANTS
    Kinds,       \* the options that may be made: records of key, type and choices
    Numbers,     \* values of switches and numbers
    MaxOptions,  \* bound: options at a time
    MaxBuffers   \* bound: buffers allocated for texts

Types == {"switch", "text", "number", "single", "multi"}

(* A key is a name, after a hint in brackets or none: "(mdns)service-name".  *)
(* The choices of an option have different keys, as names of interfaces do.  *)
ASSUME KindsAreOptions ==
    /\ Kinds \subseteq [hint : STRING, name : STRING, type : Types, choices : Seq(STRING)]
    /\ \A kind \in Kinds : \A j, k \in DOMAIN kind.choices :
           kind.choices[j] = kind.choices[k] => j = k

Null == <<"null", 0>>
Number(n) == <<"number", n>>
Buffer(b) == <<"buffer", b>>

VARIABLES
    opts,     \* a list of options, as that of a module or an action
    buffers,     \* the buffers that are allocated
    nbuffers  \* buffers allocated so far

settings == <<opts, buffers, nbuffers>>

OptionsInit == opts = <<>> /\ buffers = {} /\ nbuffers = 0

(* nf_cfg_choice_make *)
Choice(key) == [key |-> key, selected |-> FALSE]

(* nf_cfg_option_make, and the choices that are appended; size tells whether *)
(* the value is a buffer.                                                    *)
Made(kind) ==
    [hint |-> kind.hint, name |-> kind.name, type |-> kind.type, value |-> Null, size |-> 0,
     choices |-> [i \in DOMAIN kind.choices |-> Choice(kind.choices[i])]]

Make(kind) ==
    /\ Len(opts) < MaxOptions
    /\ opts' = Append(opts, Made(kind))
    /\ UNCHANGED <<buffers, nbuffers>>

(* Of the original a copy has the keys, but neither value nor selection. *)
Clone(i) ==
    /\ Len(opts) < MaxOptions
    /\ opts' = Append(opts, Made([hint |-> opts[i].hint, name |-> opts[i].name, type |-> opts[i].type,
                                  choices |-> [j \in DOMAIN opts[i].choices |-> opts[i].choices[j].key]]))
    /\ UNCHANGED <<buffers, nbuffers>>

TextOf(opt) == IF opt.size > 0 THEN {opt.value[2]} ELSE {}

FreeOption(i) ==
    /\ opts' = RemoveAt(opts, i)
    /\ buffers' = buffers \ TextOf(opts[i])
    /\ UNCHANGED nbuffers

-----------------------------------------------------------------------------
SetNumber(i, n) ==
    /\ opts[i].type \in {"switch", "number"}
    /\ opts' = [opts EXCEPT ![i].value = Number(n)]
    /\ UNCHANGED <<buffers, nbuffers>>

(* Mutant of SetText: the text that was there before is not freed. *)
SetTextOver(i) ==
    /\ opts[i].type = "text" /\ nbuffers < MaxBuffers
    /\ nbuffers' = nbuffers + 1 /\ buffers' = buffers \cup {nbuffers'}
    /\ opts' = [opts EXCEPT ![i].value = Buffer(nbuffers'), ![i].size = 1]

SetText(i) ==
    /\ opts[i].type = "text" /\ nbuffers < MaxBuffers
    /\ nbuffers' = nbuffers + 1
    /\ buffers' = (buffers \ TextOf(opts[i])) \cup {nbuffers'}
    /\ opts' = [opts EXCEPT ![i].value = Buffer(nbuffers'), ![i].size = 1]

(* The empty text, or no memory for the new one. *)
ClearText(i) ==
    /\ opts[i].type = "text"
    /\ buffers' = buffers \ TextOf(opts[i])
    /\ opts' = [opts EXCEPT ![i].value = Null, ![i].size = 0]
    /\ UNCHANGED nbuffers

Selected(i) == {c.key : c \in {c \in ToSet(opts[i].choices) : c.selected}}

(* Mutant of Chosen: what was selected stays so. *)
ChosenToo(i, key) == Selected(i) \cup {key}

(* A key that no choice has deselects all. *)
Chosen(i, key) == {key}

SelectKeys(i, keys) ==
    opts' = [opts EXCEPT ![i].choices =
                 [j \in DOMAIN @ |-> [@[j] EXCEPT !.selected = opts[i].choices[j].key \in keys]]]

SetSingle(i, key) ==
    /\ opts[i].type = "single"
    /\ SelectKeys(i, Chosen(i, key))
    /\ UNCHANGED <<buffers, nbuffers>>

SetMulti(i, key, value) ==
    /\ opts[i].type = "multi"
    /\ SelectKeys(i, IF value THEN Selected(i) \cup {key} ELSE Selected(i) \ {key})
    /\ UNCHANGED <<buffers, nbuffers>>

-----------------------------------------------------------------------------
(* Mutant of Answers: the part behind the hint is not compared. *)
AnswersWhole(opt, hint, name) == opt.hint = hint /\ opt.name = name

(* nf_cfg_option_find: does an option have this key, or is it the part of    *)
(* its key behind the hint?                                                  *)
Answers(opt, hint, name) == opt.name = name /\ (hint = "" \/ opt.hint = hint)

Find(hint, name) ==
    SelectInSeq(opts, LAMBDA opt : Answers(opt, hint, name))

Keys == UNION {ToSet(kind.choices) : kind \in Kinds}

OptionsNext ==
    \/ \E kind \in Kinds : Make(kind)
    \/ \E i \in DOMAIN opts :
           \/ Clone(i) \/ FreeOption(i) \/ SetText(i) \/ ClearText(i)
           \/ \E n \in Numbers : SetNumber(i, n)
           \/ \E key \in Keys \cup {"unknown"} :
                  SetSingle(i, key) \/ \E value \in BOOLEAN : SetMulti(i, key, value)

OptionsSpec == OptionsInit /\ [][OptionsNext]_settings

-----------------------------------------------------------------------------
(* Every buffer belongs to one option, which frees it with itself or when    *)
(* it gets another text; a number or a switch is never taken for a buffer.   *)
BuffersAreOwned ==
    /\ buffers = {opts[i].value[2] : i \in {i \in DOMAIN opts : opts[i].value[1] = "buffer"}}
    /\ Cardinality(buffers) = Cardinality({i \in DOMAIN opts : opts[i].value[1] = "buffer"})
    /\ \A i \in DOMAIN opts : opts[i].size > 0 <=> opts[i].value[1] = "buffer"

(* A single choice has one selected choice at most, whatever was set before. *)
OneIsSelected ==
    \A i \in DOMAIN opts : opts[i].type = "single" =>
        Cardinality({j \in DOMAIN opts[i].choices : opts[i].choices[j].selected}) <= 1

(* An option that is the only one of its name is found with and without the  *)
(* hint that its key begins with.                                            *)
FoundByEitherKey ==
    \A i \in DOMAIN opts :
        (\A j \in DOMAIN opts : opts[j].name = opts[i].name => i = j) =>
            Find(opts[i].hint, opts[i].name) = i /\ Find("", opts[i].name) = i

(* Every buffer of a text has one owner, of single choices one is selected   *)
(* at most, and an option is found by its key with its hint and without      *)
(* (module_cfg_option.c).                                                    *)
OptionsAreConsistent == BuffersAreOwned /\ OneIsSelected /\ FoundByEitherKey
=============================================================================
