--------------------------- MODULE PreRecognition ---------------------------
(***************************************************************************)
(* What happens to a message before the recognizer sees it: processors     *)
(* propose a rewritten message and a candidate catalog, global ones first, *)
(* then those of the domains, and an arbiter merges the proposals.  One of *)
(* them, ObservationPreProcessor, is modelled by what it does; the others  *)
(* replace a phrase they know, and may bring a catalog of their own.       *)
(* A message is a sequence of words: what the patterns of the code find    *)
(* are names of candidates, which are sequences of words too.              *)
(***************************************************************************)
EXTENDS Integers, SequencesExt

CONSTANTS
    Candidates,     \* what Sigma offers
    Kind,           \* candidate -> its entity, one of Kinds
    ValueOf,        \* candidate -> its value, as words
    Aliases,        \* candidate -> its label and aliases, as words
    Meta,           \* indicator -> scope -> the candidates it is listed for
    Filler,         \* words that are not part of any name
    MaxPhrases,     \* the length of a message, in names and fillers
    Processors,     \* the processors of the runtime
    NoOne, NoCatalog, NoResult

\* _ENTITY_KEYS, in this order.
Kinds == <<"sensor", "test_segment", "indicator", "data_type">>

Scopes == {"data_type", "sensor", "test_segment"}

OfKind(k) == {c \in Candidates : Kind[c] = k}

ASSUME KindAssumption == Kind \in [Candidates -> ToSet(Kinds)]

\* Sigma says the same sort of things of all its indicators.
ASSUME MetaAssumption ==
    \A k \in Scopes : \A c, d \in OfKind("indicator") :
        Meta[c][k] \subseteq OfKind(k) /\ (Meta[c][k] = {} <=> Meta[d][k] = {})

\* The processors differ by name, and a name by its rank among the names; the
\* observation processor is one of them.
ASSUME ProcessorAssumption ==
    /\ IsFiniteSet(Processors)
    /\ \A p \in Processors : p.priority \in Int /\ p.rank \in Int
    /\ \A p, q \in Processors : p.id = q.id \/ p.rank = q.rank => p = q
    /\ \E p \in Processors : p.id = "observation" /\ p.stage = "domain"

Names(c) == {ValueOf[c]} \cup Aliases[c]

\* _aliases: a name has words, none of which is a filler.
ASSUME NamesAssumption ==
    /\ IsFiniteSet(Candidates) /\ NoOne \notin Candidates /\ MaxPhrases \in Nat
    /\ \A c \in Candidates :
           /\ IsFiniteSet(Aliases[c])
           /\ \A n \in Names(c) : n # <<>> /\ n \in Seq(ToSet(n)) /\ ToSet(n) \cap Filler = {}

\* A piece of what the user writes: a name he means a candidate by, or a word.
Phrases == (UNION {{[of |-> c, words |-> n] : n \in Names(c)} : c \in Candidates})
           \cup {[of |-> NoOne, words |-> <<w>>] : w \in Filler}

VARIABLES
    said,       \* the message received, as phrases
    registered, \* stage -> its processors, in the order they were registered
    stage,      \* "idle", "global", "domain" or "done"
    ran,        \* how many processors of the stage have run
    heard,      \* context.message: the message shown to them
    effects,    \* what they have proposed
    result      \* PreRecognitionResult

vars == <<said, registered, stage, ran, heard, effects, result>>

Words(m) == FlattenSeq([i \in DOMAIN m |-> m[i].words])

----------------------------------------------------------------------------
(* ObservationPreProcessor.                                                *)

OccursAt(name, msg, i) == /\ i + Len(name) - 1 <= Len(msg)
                          /\ SubSeq(msg, i, i + Len(name) - 1) = name

Occurs(name, msg) == \E i \in DOMAIN msg : OccursAt(name, msg, i)

Replaced(msg, name, by) ==
    LET from[i \in 1 .. Len(msg) + 1] ==
            IF i > Len(msg) THEN <<>>
            ELSE IF OccursAt(name, msg, i)
                 THEN by \o from[i + Len(name)]
                 ELSE <<msg[i]>> \o from[i + 1]
    IN  from[1]

Matched(msg) == {c \in Candidates : \E n \in Names(c) : Occurs(n, msg)}

\* Every alias of a candidate becomes its value; data types stay as said.
Replacements(S) ==
    UNION {{[of |-> c, alias |-> n] : n \in Aliases[c] \ {ValueOf[c]}} :
              c \in S \ OfKind("data_type")}

\* Seeded bug: the shortest name of a candidate is tried first.
ShortestFirst(m, n) == m = n \/ ~Occurs(n, m)

\* May m be tried before n?  Not when it is the shorter, a part of n.
LongestFirst(m, n) == m = n \/ ~Occurs(m, n)

\* Candidates are taken entity by entity and one after the other, otherwise in
\* the order of the catalog, which is Sigma's.
Orders(R) ==
    LET rank(r) == CHOOSE k \in DOMAIN Kinds : Kinds[k] = Kind[r.of]
    IN  {o \in SetToSeqs(R) : \A i, j \in DOMAIN o : i < j =>
            /\ rank(o[i]) <= rank(o[j])
            /\ o[i].of = o[j].of => /\ LongestFirst(o[i].alias, o[j].alias)
                                    /\ \A k \in i .. j : o[k].of = o[i].of}

Rewritten(msg, o) ==
    FoldLeft(LAMBDA m, r : Replaced(m, r.alias, ValueOf[r.of]), msg, o)

\* Seeded bug: the hint is given though the message names a data type.
ScopeHintToo(msg, hits) ==
    LET indicators == hits \cap OfKind("indicator")
        types == UNION {Meta[c]["data_type"] : c \in indicators}
    IN  IF /\ Cardinality(indicators) = 1 /\ Cardinality(types) = 1
           /\ \A d \in types : ~Occurs(ValueOf[d], msg)
        THEN ValueOf[CHOOSE d \in types : TRUE] \o msg
        ELSE msg

ScopeHint(msg, hits) ==
    LET indicators == hits \cap OfKind("indicator")
        types == UNION {Meta[c]["data_type"] : c \in indicators}
    IN  IF /\ hits \cap OfKind("data_type") = {}
           /\ Cardinality(indicators) = 1 /\ Cardinality(types) = 1
           /\ \A d \in types : ~Occurs(ValueOf[d], msg)
        THEN ValueOf[CHOOSE d \in types : TRUE] \o msg
        ELSE msg

\* The indicators in the scope of what is mentioned; metadata that says
\* nothing of a scope does not restrict to it.
InScope(hits) ==
    {i \in OfKind("indicator") :
        LET told == {k \in Scopes : hits \cap OfKind(k) # {} /\ Meta[i][k] # {}}
        IN  told # {} /\ \A k \in told : Meta[i][k] \cap hits # {}}

NarrowedTo(hits) ==
    [k \in ToSet(Kinds) |->
        IF k = "indicator" /\ InScope(hits) # {} THEN InScope(hits)
        ELSE IF hits \cap OfKind(k) # {} THEN hits \cap OfKind(k)
        ELSE OfKind(k)]

Effect(p, msg, new, cat) ==
    [id |-> p.id, priority |-> p.priority,
     rewrite |-> IF new = msg THEN <<>> ELSE new, catalog |-> cat]

Observed(p, msg) ==
    LET hits == Matched(msg)
    IN  {Effect(p, msg, ScopeHint(Rewritten(msg, o), hits),
                IF hits = {} THEN NoCatalog ELSE NarrowedTo(hits)) :
             o \in Orders(Replacements(hits))}

\* What a processor may propose: nothing where it does not match.
Proposals(p, msg) ==
    IF p.id = "observation" THEN Observed(p, msg)
    ELSE IF Occurs(p.from, msg)
         THEN {Effect(p, msg, Replaced(msg, p.from, p.to), p.catalog)}
         ELSE {}

----------------------------------------------------------------------------
(* PreRecognitionArbiter and the two pipelines.  An id is compared by its  *)
(* rank, the place it has in the order of names.                           *)

Rank == [i \in {p.id : p \in Processors} |->
            (CHOOSE p \in Processors : p.id = i).rank]

\* Seeded bug: equal priorities are left in the order they come in.
BeforeByPriority(a, b) == a.priority < b.priority

Before(a, b) == \/ a.priority < b.priority
                \/ a.priority = b.priority /\ Rank[a.id] < Rank[b.id]

\* Processors and effects in this order; equals stay in the order they come in.
Sorted(es) ==
    LET earlier(i, j) == \/ Before(es[i], es[j])
                         \/ ~Before(es[j], es[i]) /\ i < j
        at == CHOOSE p \in SetToSeqs(DOMAIN es) :
                  \A i, j \in DOMAIN es : i < j => earlier(p[i], p[j])
    IN  [i \in DOMAIN es |-> es[at[i]]]

Rewrites(es) == {e.rewrite : e \in ToSet(es)} \ {<<>>}

\* Seeded bug: the last rewrite wins, as the last catalog does.
LastMessage(msg, es) ==
    LET new == SelectSeq(Sorted(es), LAMBDA e : e.rewrite # <<>>)
    IN  IF new = <<>> THEN msg ELSE Last(new).rewrite

AgreedMessage(msg, es) ==
    IF Cardinality(Rewrites(es)) = 1 THEN CHOOSE m \in Rewrites(es) : TRUE ELSE msg

\* The last catalog in this order overrides the others.
Merge(msg, es) ==
    LET ordered == Sorted(es)
        bring == {i \in DOMAIN ordered : ordered[i].catalog # NoCatalog}
    IN  [message  |-> AgreedMessage(msg, es),
         conflict |-> IF Cardinality(Rewrites(es)) > 1
                      THEN {e.id : e \in {x \in ToSet(es) : x.rewrite # <<>>}} ELSE {},
         catalog  |-> IF bring = {} THEN NoCatalog ELSE ordered[Max(bring)].catalog]

Pipeline(s) == Sorted(registered[s])

Init ==
    /\ registered \in [{"global", "domain"} -> UNION {SetToSeqs(P) : P \in SUBSET Processors}]
    /\ \A s \in {"global", "domain"} :
           ToSet(registered[s]) = {p \in Processors : p.stage = s}
    /\ said = <<>> /\ stage = "idle" /\ ran = 0 /\ heard = <<>>
    /\ effects = <<>> /\ result = NoResult

\* The step is run for a turn; a message has at most MaxPhrases phrases.
Receive(m) ==
    /\ stage = "idle"
    /\ said' = m /\ heard' = Words(m)
    /\ stage' = "global"
    /\ UNCHANGED <<registered, ran, effects, result>>

RunProcessor ==
    /\ stage \in {"global", "domain"} /\ ran < Len(Pipeline(stage))
    /\ LET offers == Proposals(Pipeline(stage)[ran + 1], heard)
       IN  IF offers = {} THEN effects' = effects
           ELSE \E e \in offers : effects' = Append(effects, e)
    /\ ran' = ran + 1
    /\ UNCHANGED <<said, registered, stage, heard, result>>

\* Seeded bug: the domains' processors are shown the message as it was received.
MergeGlobalLater ==
    /\ stage = "global" /\ ran = Len(Pipeline(stage))
    /\ stage' = "domain" /\ ran' = 0
    /\ UNCHANGED <<said, registered, heard, effects, result>>

\* The domains' processors are shown the message the global ones agreed on.
MergeGlobal ==
    /\ stage = "global" /\ ran = Len(Pipeline(stage))
    /\ heard' = Merge(heard, effects).message
    /\ stage' = "domain" /\ ran' = 0
    /\ UNCHANGED <<said, registered, effects, result>>

MergeAll ==
    /\ stage = "domain" /\ ran = Len(Pipeline(stage))
    /\ result' = Merge(heard, effects)
    /\ stage' = "done"
    /\ UNCHANGED <<said, registered, ran, heard, effects>>

\* The result goes to the turn; the pipeline keeps nothing of it.
HandOver ==
    /\ stage = "done"
    /\ said' = <<>> /\ stage' = "idle" /\ ran' = 0 /\ heard' = <<>>
    /\ effects' = <<>> /\ result' = NoResult
    /\ UNCHANGED registered

Next ==
    \/ \E n \in 1 .. MaxPhrases : \E m \in [1 .. n -> Phrases] : Receive(m)
    \/ RunProcessor \/ MergeGlobal \/ MergeAll \/ HandOver

Spec == Init /\ [][Next]_vars

----------------------------------------------------------------------------
Finished == stage = "done"

Meant == {said[i].of : i \in DOMAIN said} \ {NoOne}

\* No word is part of the names of two candidates, or both of a value and
\* of an alias of the same candidate.
Apart(S) ==
    LET words(c) == UNION {ToSet(n) : n \in Names(c)}
    IN  /\ \A c \in S, d \in Candidates : c # d => words(c) \cap words(d) = {}
        /\ \A c \in S : \A n \in Aliases[c] \ {ValueOf[c]} :
               ToSet(n) \cap ToSet(ValueOf[c]) = {}

\* Where names are told apart by their words and no other processor has had
\* its say, the recognizer is given what the user has written, word by word,
\* with each candidate by its value and a data type as he put it; in front of
\* it at most the one data type of the one indicator he means.
SaysTheSame ==
    Finished /\ Apart(Meant) /\ (\A e \in ToSet(effects) : e.id = "observation") =>
        LET body == FlattenSeq([i \in DOMAIN said |->
                        IF said[i].of = NoOne \/ Kind[said[i].of] = "data_type"
                        THEN said[i].words ELSE ValueOf[said[i].of]])
            indicators == Meant \cap OfKind("indicator")
        IN  \/ result.message = body
            \/ /\ Meant \cap OfKind("data_type") = {}
               /\ \E i \in indicators : \E d \in Meta[i]["data_type"] :
                     /\ indicators = {i} /\ Meta[i]["data_type"] = {d}
                     /\ result.message = ValueOf[d] \o body

\* What the recognizer may choose from fits what it reads: each candidate its
\* message names is offered, but for an indicator that is not listed for the
\* data type or the place the message names.
CatalogServesMessage ==
    Finished /\ (\A e \in ToSet(effects) : e.catalog # NoCatalog => e.id = "observation") =>
        \A c \in Candidates :
            Occurs(ValueOf[c], result.message) /\ result.catalog # NoCatalog =>
                \/ c \in result.catalog[Kind[c]]
                \/ \E k \in Scopes : /\ Kind[c] = "indicator"
                                     /\ Matched(heard) \cap OfKind(k) # {}
                                     /\ Meta[c][k] \cap Matched(heard) = {}

\* The message names only candidates that it named when it was shown to the
\* processors, and where it named no data type perhaps one.
NamesNothingNew ==
    \A c \in Candidates :
        Occurs(ValueOf[c], result.message) =>
            \/ c \in Matched(heard)
            \/ Kind[c] = "data_type" /\ Matched(heard) \cap OfKind("data_type") = {}

\* No processor but the observation processor rewrites the message.
OwnRewrites == \A e \in ToSet(effects) : e.rewrite # <<>> => e.id = "observation"

\* Putting values in place of aliases and a data type in front of the message
\* makes the recognizer read of no candidate the user did not mention, but of
\* the one data type he left out (ObservationPreProcessor; not for any names:
\* a value may come about where two replacements meet).
RewriteNamesNothingNew == Finished /\ OwnRewrites => NamesNothingNew

\* Two texts can overlap: one of them k places after the other, they agree
\* where both have words.
Clash(v, w) ==
    \E k \in (1 - Len(w)) .. (Len(v) - 1) :
        \A i \in DOMAIN v : i - k \in DOMAIN w => v[i] = w[i - k]

\* No two values can overlap, so that none comes about where another is put.
ValuesApart == \A c, d \in Candidates : c # d => ~Clash(ValueOf[c], ValueOf[d])

\* Name a begins in m and goes on into l, the name said after m.
RunsOn(a, m, l) ==
    \E k \in 1 .. Len(a) - 1 : /\ k <= Len(m)
                               /\ \A i \in 1 .. k : a[i] = m[Len(m) - k + i]
                               /\ a[k + 1] = l[1]

\* No alias can be read out of two names of the same candidate side by side.
Legible(c) == \A a \in Aliases[c] : \A m, l \in Names(c) : ~RunsOn(a, m, l)

\* The recognizer reads a message every processor that wanted another one has
\* agreed on, or else the one the domains' processors were shown, with the
\* ones that disagree on record.
OneVoice ==
    Finished =>
        LET wishes == {e \in ToSet(effects) : e.rewrite # <<>>}
        IN  IF result.conflict = {}
            THEN \A e \in wishes : e.rewrite = result.message
            ELSE result.message = heard /\ result.conflict = {e.id : e \in wishes}

\* The catalog the recognizer works with does not depend on the order the
\* processors were registered in: it is the one of the last by priority and
\* name among those that bring one.
RegistrationIsIrrelevant ==
    Finished =>
        LET bring == {e \in ToSet(effects) : e.catalog # NoCatalog}
        IN  IF bring = {} THEN result.catalog = NoCatalog
            ELSE \E e \in bring :
                    /\ result.catalog = e.catalog
                    /\ \A x \in bring \ {e} :
                          \/ x.priority < e.priority
                          \/ x.priority = e.priority /\ Rank[x.id] < Rank[e.id]
=============================================================================
