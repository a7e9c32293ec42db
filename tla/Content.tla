------------------------------ MODULE Content ------------------------------
(***************************************************************************)
(* What send_message does with the text of a message before anything else  *)
(* looks at it (ValidationService): the rules are checked on the text as   *)
(* it was received, the text is then cleaned, and the cleaned text, if any *)
(* is left, is what is stored and broadcast.                               *)
(*                                                                         *)
(* A text is a sequence of tokens, one for each kind of character the      *)
(* rules and the patterns tell apart; a script tag is one token, because   *)
(* the patterns of the code only know it as a whole.  What the rules count *)
(* are its characters.                                                     *)
(***************************************************************************)
EXTENDS Integers, SequencesExt

CONSTANTS
    MaxTokens,   \* bound: the longest text tried, in tokens
    MaxLength,   \* longest text accepted, in characters (2000 in the code)
    MaxRun,      \* longest run of one character accepted (10 in the code)
    MaxRepeats,  \* how often a word may occur (5 in the code) ...
    EnoughWords, \* ... in a text with fewer words than this (50 in the code)
    ShortText    \* up to this length, ratios do not matter (10 in the code)

ASSUME ContentAssumption == /\ MaxTokens \in Nat
                            /\ MaxLength \in Nat
                            /\ MaxRun \in Nat \ {0}
                            /\ {MaxRepeats, EnoughWords, ShortText} \subseteq Nat

Small   == "a"
Capital == "A"
Letters == {Small, Capital}
Nul     == "nul"
Blanks == {"space", "newline"}
Openers == {"<", "<script", "</script>"}   \* tokens that begin with "<"
Closers == {">", "</script>"}              \* tokens that end with ">"
Tokens  == Letters \union {Nul} \union Blanks \union Openers \union Closers

Contents == BoundedSeq(Tokens, MaxTokens)

VARIABLES
    content,   \* the text in the event
    stage,     \* "received", "accepted", "stored" or "refused"
    stored     \* the text that is stored and broadcast

vars == <<content, stage, stored>>

----------------------------------------------------------------------------
(* The rules. *)

Count(c, T) == Cardinality({p \in DOMAIN c : c[p] \in T})

(* A script tag has seven or nine characters. *)
Length(c) == Len(c) + 6 * Count(c, {"<script"}) + 8 * Count(c, {"</script>"})

FirstChar(t) == IF t \in Openers THEN "<" ELSE t

LastChar(t) == CASE t = "</script>" -> ">" [] t = "<script" -> "t" [] OTHER -> t

IsBlank(c) == \A p \in DOMAIN c : c[p] \in Blanks

HasEmptyLine(c) == \E p \in 1..(Len(c) - 1) : c[p] = "newline" /\ c[p + 1] = "newline"

(* A run may begin at the end of one tag and end at the beginning of the    *)
(* next.                                                                   *)
HasExcessiveConsecutiveChars(c) ==
    \E p \in 1..(Len(c) - MaxRun) :
        /\ FirstChar(c[p + MaxRun]) = LastChar(c[p])
        /\ \A q \in (p + 1)..(p + MaxRun - 1) : c[q] = LastChar(c[p])

(* Words are what split makes of a text at its blanks: the first and the    *)
(* last are empty where it begins or ends with one.  A word is known by    *)
(* where it begins; words are the same whatever the case of their letters. *)
Ends(c, p) == p = Len(c) + 1 \/ (p \in DOMAIN c /\ c[p] \in Blanks)

WordStarts(c) ==
    {p \in 1..(Len(c) + 1) :
        p = 1 \/ (c[p - 1] \in Blanks /\ (p = Len(c) + 1 \/ c[p] \notin Blanks))}

SameLetter(x, y) == x = y \/ {x, y} \subseteq Letters

SameWord(c, p, q) ==
    \E n \in 0..Len(c) :
        /\ Ends(c, p + n) /\ Ends(c, q + n)
        /\ \A i \in 0..(n - 1) : /\ c[p + i] \notin Blanks
                                 /\ SameLetter(c[p + i], c[q + i])

RepeatsWords(c) ==
    /\ Cardinality(WordStarts(c)) < EnoughWords
    /\ \E p \in WordStarts(c) :
          Cardinality({q \in WordStarts(c) : SameWord(c, p, q)}) > MaxRepeats

Capitals(c) == Count(c, {Capital})

(* "<", ">" and the slash of a closing tag. *)
Punctuation(c) == Count(c, Openers \union Closers) + 2 * Count(c, {"</script>"})

(* More than 0.7 capitals, or more than 0.3 punctuation. *)
IsLikelySpam(c) ==
    \/ RepeatsWords(c)
    \/ /\ Length(c) > ShortText
       /\ \/ 10 * Capitals(c) > 7 * Length(c)
          \/ 10 * Punctuation(c) > 3 * Length(c)

(* All rules but the last. *)
WellFormed(c) ==
    /\ ~ IsBlank(c)
    /\ Length(c) <= MaxLength
    /\ ~ HasEmptyLine(c)
    /\ ~ HasExcessiveConsecutiveChars(c)

MeetsRules(c) == WellFormed(c) /\ ~ IsLikelySpam(c)

----------------------------------------------------------------------------
(* The cleaning, one operator for each pattern that is replaced. *)

(* The i-th position of S, in increasing order, and the tokens of c at the   *)
(* positions of S, in that order.                                          *)
Rank(S, p)   == Cardinality({q \in S : q <= p})
Nth(S, i)    == CHOOSE p \in S : Rank(S, p) = i
KeepAt(c, S) == [i \in 1..Cardinality(S) |-> c[Nth(S, i)]]

DropNul(c) == KeepAt(c, {p \in DOMAIN c : c[p] # Nul})

\* Mutant: runs of blanks are removed instead of replaced.
CollapseToNothing(c) == KeepAt(c, {p \in DOMAIN c : c[p] \notin Blanks})

(* Each run of blanks becomes one space. *)
CollapseBlanks(c) ==
    LET once == KeepAt(c, {p \in DOMAIN c : p = 1 \/ ~ {c[p], c[p - 1]} \subseteq Blanks})
    IN  [p \in DOMAIN once |-> IF once[p] \in Blanks THEN "space" ELSE once[p]]

Trim(c) ==
    KeepAt(c, {p \in DOMAIN c : /\ \E q \in 1..p : c[q] \notin Blanks
                                /\ \E q \in p..Len(c) : c[q] \notin Blanks})

(* An opening script tag is only one when no letter continues its name.    *)
OpensScript(c, p) ==
    /\ c[p] = "<script"
    /\ p = Len(c) \/ c[p + 1] \notin Letters

(* From an opening script tag to the first closing one after it. *)
InScript(c) ==
    {p \in DOMAIN c :
        \E i \in 1..p, j \in p..Len(c) :
            /\ OpensScript(c, i)
            /\ c[j] = "</script>"
            /\ \A k \in i..(j - 1) : c[k] # "</script>"}

\* Mutant: the pattern of a tag does not allow a second "<" in it.
InTagStrict(c) ==
    {p \in DOMAIN c :
        \E i \in 1..p, j \in p..Len(c) :
            /\ c[i] \in Openers
            /\ c[j] \in Closers
            /\ \A k \in i..(j - 1) : c[k] \notin Closers
            /\ \A k \in (i + 1)..j : c[k] \notin Openers}

(* From a "<" to the first ">" after it. *)
InTag(c) ==
    {p \in DOMAIN c :
        \E i \in 1..p, j \in p..Len(c) :
            /\ c[i] \in Openers
            /\ c[j] \in Closers
            /\ \A k \in i..(j - 1) : c[k] \notin Closers}

DropScripts(c) == KeepAt(c, DOMAIN c \ InScript(c))
DropTags(c)    == KeepAt(c, DOMAIN c \ InTag(c))

\* Mutant: tags are removed before script elements.
SanitizeTagsFirst(c) == DropScripts(DropTags(Trim(CollapseBlanks(DropNul(c)))))

(* The pattern for three newlines in a row finds none: blanks are spaces by  *)
(* then.                                                                   *)
SanitizeMessage(c) == DropTags(DropScripts(Trim(CollapseBlanks(DropNul(c)))))

----------------------------------------------------------------------------
Init ==
    /\ content \in Contents
    /\ stage = "received"
    /\ stored = <<>>

Accept ==
    /\ stage = "received"
    /\ MeetsRules(content)
    /\ stage' = "accepted"
    /\ UNCHANGED <<content, stored>>

Reject ==
    /\ stage = "received"
    /\ ~ MeetsRules(content)
    /\ stage' = "refused"
    /\ UNCHANGED <<content, stored>>

Sanitize ==
    /\ stage = "accepted"
    /\ LET clean == SanitizeMessage(content)
       IN  /\ stored' = clean
           /\ stage' = IF clean = <<>> THEN "refused" ELSE "stored"
    /\ UNCHANGED content

Next == Accept \/ Reject \/ Sanitize

Spec == Init /\ [][Next]_vars

----------------------------------------------------------------------------
(* No "<" that is stored has a ">" anywhere after it: whatever was         *)
(* removed before it and around it, cleaning leaves no markup behind       *)
(* (sanitizeMessage).                                                      *)
NoTagSurvives ==
    stage = "stored" =>
        \A i \in DOMAIN stored : \A j \in i..Len(stored) :
            ~ (stored[i] \in Openers /\ stored[j] \in Closers)

(* What stands inside a script element is dropped with it: a text has no   *)
(* more letters when it is stored than it had outside of its script        *)
(* elements (the order in which sanitizeMessage applies its patterns).     *)
LettersAt(c, S) == {p \in S : c[p] \in Letters}
ScriptTextIsDropped ==
    stage = "stored" =>
        LET received == DropNul(content)
            outside  == DOMAIN received \ InScript(received)
        IN  Cardinality(LettersAt(stored, DOMAIN stored))
              <= Cardinality(LettersAt(received, outside))

(* The rules are checked before the text is cleaned and never again        *)
(* (validateMessage before sanitizeMessage in the send_message handler).   *)
(* For a text without markup and NUL characters that is enough for all of  *)
(* them but one: what is stored is still well-formed.  It may look like    *)
(* spam, though, where cleaning dropped blanks: "!!!!abcd", ten blanks and *)
(* "efg" is accepted, and stored with one blank, of which it would not be; *)
(* where no blank was dropped it still meets every rule.  With markup none *)
(* of this holds: "<a> <a>" is stored as a blank.                          *)
PlainTextKeepsRules ==
    (stage = "stored" /\ \A p \in DOMAIN content : content[p] \notin Openers \union {Nul})
        => /\ WellFormed(stored)
           /\ Len(stored) = Len(content) => MeetsRules(stored)

=============================================================================
