------------------------------- MODULE Locale -------------------------------
(***************************************************************************)
(* I18n of zlocale/i18n.go: languages are loaded, extended, chosen and     *)
(* removed while others translate.  A section under a lock is a step.  A   *)
(* translation is the number of the Load that gave it, 0 if there is none. *)
(* Every text has placeholders and goes through the templates that its     *)
(* language keeps for itself (no TemplateCache).                           *)
(***************************************************************************)
EXTENDS Integers, FiniteSets

CONSTANTS
    Tongues,       \* language codes
    DefaultLang,
    Words,         \* translation keys
    Speakers,      \* goroutines that call
    MaxLoads,      \* bound on the Loads, and so on the languages that are ever made
    MaxTemplates   \* maxTemplates

ASSUME LocaleAssumption == DefaultLang \in Tongues /\ MaxLoads \in Nat /\ MaxTemplates \in Nat \ {0}

VARIABLES
    languages,     \* languages[c]: the number of the Load that made it, 0 if there is none
    translations,  \* data, of every language that was made
    templates, templateCount,
    currentLang,
    loads,
    clearing,      \* the languages that ClearTemplateCache has yet to visit
    saying,        \* saying[s]: the call of T or SetLanguage
    torn           \* history: RemoveLanguage came between the two steps of SetLanguage

loVars == <<languages, translations, templates, templateCount, currentLang, loads, clearing, saying, torn>>

Silent == [at |-> "idle", lang |-> DefaultLang, word |-> "none", of |-> 0, text |-> 0, due |-> "key"]

LoInit ==
    /\ languages = [c \in Tongues |-> 0]
    /\ translations = [l \in 1..MaxLoads |-> [w \in Words |-> 0]]
    /\ templates = [l \in 1..MaxLoads |-> {}] /\ templateCount = [l \in 1..MaxLoads |-> 0]
    /\ currentLang = DefaultLang
    /\ loads = 0 /\ clearing = {} /\ torn = FALSE
    /\ saying = [s \in Speakers |-> Silent]

LoGoes(s, from, say) == saying[s].at = from /\ saying' = [saying EXCEPT ![s] = say]

\* LoadLanguageWithConfig: a new language, or more of one that is there.
LoadLanguage(c, words) ==
    /\ loads < MaxLoads /\ clearing = {} /\ loads' = loads + 1
    /\ LET l == IF languages[c] = 0 THEN loads' ELSE languages[c] IN
       /\ languages' = [languages EXCEPT ![c] = l]
       /\ translations' = [translations EXCEPT ![l] = [w \in Words |-> IF w \in words THEN loads' ELSE @[w]]]
    /\ UNCHANGED <<templates, templateCount, currentLang, clearing, saying, torn>>

\* SetLanguage looks under the read lock, and sets under the lock.
SetLanguage(s, c) ==
    /\ LoGoes(s, "idle", IF languages[c] = 0 THEN Silent ELSE [Silent EXCEPT !.at = "set", !.lang = c])
    /\ UNCHANGED <<languages, translations, templates, templateCount, currentLang, loads, clearing, torn>>
SetCurrent(s) ==
    /\ clearing = {} /\ LoGoes(s, "set", Silent)
    /\ currentLang' = saying[s].lang
    /\ UNCHANGED <<languages, translations, templates, templateCount, loads, clearing, torn>>

KeptCurrent(c) == currentLang   \* mutant: the removed language stays the current one
CurrentWithout(c) == IF currentLang = c THEN DefaultLang ELSE currentLang
\* What a call for this language has a right to when the language goes.
Lessened(say, c) ==
    IF say.lang = c /\ say.due = "own"
    THEN [say EXCEPT !.due = IF languages[DefaultLang] # 0 /\ translations[languages[DefaultLang]][say.word] # 0
                             THEN "default" ELSE "key"]
    ELSE say
RemoveLanguage(c) ==
    /\ c # DefaultLang /\ languages[c] # 0 /\ clearing = {}
    /\ languages' = [languages EXCEPT ![c] = 0]
    /\ currentLang' = CurrentWithout(c)
    /\ saying' = [s \in Speakers |-> Lessened(saying[s], c)]
    /\ torn' = (torn \/ \E s \in Speakers : saying[s].at = "set" /\ saying[s].lang = c)
    /\ UNCHANGED <<translations, templates, templateCount, loads, clearing>>

-----------------------------------------------------------------------------
\* T: the current language, the language of that code, its text for the word, and the
\* same in the default language if there is none.
Due(c, w) ==
    LET Has(d) == languages[d] # 0 /\ translations[languages[d]][w] # 0 IN
    IF Has(c) THEN "own" ELSE IF Has(DefaultLang) THEN "default" ELSE "key"
Translate(s, w) ==
    /\ LoGoes(s, "idle", [at |-> "find", lang |-> currentLang, word |-> w, of |-> 0, text |-> 0,
                          due |-> Due(currentLang, w)])
    /\ UNCHANGED <<languages, translations, templates, templateCount, currentLang, loads, clearing, torn>>

\* The code whose language is being asked: the call's own, and then the default.
AskedIn(say) == IF say.at \in {"find", "read"} THEN say.lang ELSE DefaultLang
NoFallback(say) == "answer"   \* mutant: a word that the language lacks is the answer
Missing(say) == IF say.lang # DefaultLang /\ say.at \in {"find", "read"} THEN "find default" ELSE "answer"
FindLanguage(s) ==
    LET say == saying[s]
        l == languages[AskedIn(say)]
    IN  /\ say.at \in {"find", "find default"}
        /\ LoGoes(s, say.at, [say EXCEPT !.of = l,
                    !.at = IF l = 0 THEN Missing(say) ELSE IF @ = "find" THEN "read" ELSE "read default"])
        /\ UNCHANGED <<languages, translations, templates, templateCount, currentLang, loads, clearing, torn>>
ReadText(s) ==
    LET say == saying[s]
        text == translations[say.of][say.word]
    IN  /\ say.at \in {"read", "read default"}
        /\ LoGoes(s, say.at, [say EXCEPT !.text = text, !.of = IF text = 0 THEN 0 ELSE @,
                    !.at = IF text = 0 THEN Missing(say) ELSE "peek"])
        /\ UNCHANGED <<languages, translations, templates, templateCount, currentLang, loads, clearing, torn>>

\* getOrCreateTemplateLegacy: a look under the read lock, and another under the lock.
PeekTemplate(s) ==
    LET say == saying[s] IN
    /\ LoGoes(s, "peek", [say EXCEPT !.at = IF <<say.word, say.text>> \in templates[say.of] THEN "answer" ELSE "make"])
    /\ UNCHANGED <<languages, translations, templates, templateCount, currentLang, loads, clearing, torn>>

MakesUnseen(t, l) == TRUE   \* mutant: no second look
Makes(t, l) == t \notin templates[l]
MakeTemplate(s) ==
    LET say == saying[s]
        t == <<say.word, say.text>>
        full == templateCount[say.of] >= MaxTemplates
    IN  /\ LoGoes(s, "make", [say EXCEPT !.at = "answer"])
        /\ IF ~ Makes(t, say.of) THEN UNCHANGED <<templates, templateCount>>
           ELSE \E gone \in IF full /\ templates[say.of] # {} THEN {{u} : u \in templates[say.of]} ELSE {{}} :
                    /\ templates' = [templates EXCEPT ![say.of] = (@ \ gone) \cup {t}]
                    /\ templateCount' = [templateCount EXCEPT ![say.of] = @ + 1 - Cardinality(gone)]
        /\ UNCHANGED <<languages, translations, currentLang, loads, clearing, torn>>

SayText(s) ==
    /\ LoGoes(s, "answer", Silent)
    /\ UNCHANGED <<languages, translations, templates, templateCount, currentLang, loads, clearing, torn>>

\* ClearTemplateCache, which keeps the read lock while it goes from language to language.
ClearTemplateCache ==
    /\ clearing = {} /\ clearing' = {languages[c] : c \in Tongues} \ {0}
    /\ clearing' # {}
    /\ UNCHANGED <<languages, translations, templates, templateCount, currentLang, loads, saying, torn>>
ClearTemplates(l) ==
    /\ l \in clearing /\ clearing' = clearing \ {l}
    /\ templates' = [templates EXCEPT ![l] = {}]
    /\ templateCount' = [templateCount EXCEPT ![l] = 0]
    /\ UNCHANGED <<languages, translations, currentLang, loads, saying, torn>>

LoNext ==
    \/ \E c \in Tongues : RemoveLanguage(c) \/ \E words \in SUBSET Words \ {{}} : LoadLanguage(c, words)
    \/ \E s \in Speakers :
        \/ \E c \in Tongues : SetLanguage(s, c)
        \/ \E w \in Words : Translate(s, w)
        \/ SetCurrent(s) \/ FindLanguage(s) \/ ReadText(s) \/ PeekTemplate(s) \/ MakeTemplate(s) \/ SayText(s)
    \/ ClearTemplateCache \/ \E l \in clearing : ClearTemplates(l)

LoSpec == LoInit /\ [][LoNext]_loVars

-----------------------------------------------------------------------------
\* Where an answer comes from.
Source(say) ==
    IF say.text = 0 THEN "key"
    ELSE IF say.of = languages[DefaultLang] /\ say.lang # DefaultLang THEN "default" ELSE "own"

\* Whoever loads, removes, chooses and clears: a word that the language has is answered
\* in that language unless it is removed during the call, one that the default language
\* has is never answered bare; the current language is there unless it was removed
\* while it was being chosen; and the count that bounds a language's templates is exact.
LocaleSound ==
    /\ \A s \in Speakers : saying[s].at = "answer" =>
            /\ saying[s].due = "own" => Source(saying[s]) = "own"
            /\ saying[s].due = "default" => Source(saying[s]) # "key"
    /\ currentLang # DefaultLang /\ ~torn => languages[currentLang] # 0
    /\ \A l \in 1..MaxLoads : templateCount[l] = Cardinality(templates[l]) /\ templateCount[l] <= MaxTemplates
=============================================================================
