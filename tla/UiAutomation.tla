---------------------------- MODULE UiAutomation ----------------------------
(* A UI skill (core/ui_annotation): UIAutomationSession plays a sequence of     *)
(* steps on the screen after the user allowed it, and another thread can stop   *)
(* it.  PageLocator remembers where it saw a text; the screen changes at any    *)
(* time.  The consent gateway, the page identifier and the crop are configured:  *)
(* without a gateway no sequence starts.  Behind it the annotation window, in    *)
(* which such a skill is recorded; the two share no state.                       *)
EXTENDS Naturals, Sequences, FiniteSets

CONSTANTS
    PageIds,           \* pages of the annotated application
    UiSteps,           \* the sequence: action, danger, the page it leads to
    Positions,         \* where the element the steps name can be on the screen
    NoPosition,        \* it is not on the screen, or no position is remembered
    MaxScreenChanges,  \* bound
    MaxSequences       \* bound: sequences played

\* The skill names at least one page, the element can be somewhere, and the steps are a list.
ASSUME UiAssumption ==
    /\ PageIds # {} /\ Positions # {}
    /\ UiSteps \in Seq({UiSteps[i] : i \in DOMAIN UiSteps})
    /\ MaxScreenChanges \in Nat /\ MaxSequences \in Nat

VARIABLES
    screen,            \* where the element is, and which page is shown
    cache,             \* the remembered position, and whether its time is over
    session_at,        \* where execute_sequence is, and at which step
    ui_interrupted,    \* _interrupted
    answers,           \* the user's answers to this sequence
    located,           \* the position this step will use, and where the text was then
    clicks,            \* the same for every step this sequence performed
    after_stop,        \* steps performed since stop() was called in this sequence
    screen_changes, sequences

sessionVars == <<cache, session_at, ui_interrupted, answers, located, clicks, after_stop, sequences>>
uiVars == <<sessionVars, screen, screen_changes>>

NotLocated == [used |-> NoPosition, seen |-> NoPosition]

UiInit ==
    /\ screen = [element |-> CHOOSE p \in Positions : TRUE, page |-> CHOOSE p \in PageIds : TRUE]
    /\ cache = [position |-> NoPosition, expired |-> FALSE]
    /\ session_at = [place |-> "idle", step |-> 0]
    /\ ui_interrupted = FALSE /\ answers = <<>>
    /\ located = NotLocated /\ clicks = <<>> /\ after_stop = 0
    /\ screen_changes = 0 /\ sequences = 0

-----------------------------------------------------------------------------
(* The sequence                                                                *)

SequenceAt(place) == session_at.place = place
SequenceGoes(place) == session_at' = [session_at EXCEPT !.place = place]
UiStep == UiSteps[session_at.step]

\* _assess_risk
IsHard == \E i \in DOMAIN UiSteps : UiSteps[i].danger = "hard"

\* A stop that came before is forgotten.
execute_sequence ==
    /\ SequenceAt("idle") /\ sequences < MaxSequences
    /\ sequences' = sequences + 1
    /\ session_at' = [place |-> "ask", step |-> 1]
    /\ ui_interrupted' = FALSE /\ answers' = <<>>
    /\ clicks' = <<>> /\ after_stop' = 0 /\ located' = NotLocated
    /\ UNCHANGED <<cache, screen, screen_changes>>

stop ==
    /\ ~ui_interrupted /\ ui_interrupted' = TRUE
    /\ UNCHANGED <<cache, session_at, answers, located, clicks, after_stop,
                   sequences, screen, screen_changes>>

\* One answer, two when a step is dangerous.
answer_consent(allowed) ==
    /\ SequenceAt("ask")
    /\ answers' = Append(answers, allowed)
    /\ SequenceGoes(IF ~allowed THEN "idle" ELSE IF IsHard /\ Len(answers) = 0 THEN "ask" ELSE "step")
    /\ UNCHANGED <<cache, ui_interrupted, located, clicks, after_stop, sequences,
                   screen, screen_changes>>

Stops_AtFirst == ui_interrupted /\ session_at.step = 1          \* mutant
\* Before each step the flag is read.
Stops == ui_interrupted

BeginStep ==
    /\ SequenceAt("step")
    /\ SequenceGoes(IF Stops \/ session_at.step > Len(UiSteps) THEN "idle"
            ELSE IF UiStep.action = "read" THEN "page" ELSE "locate")
    /\ UNCHANGED <<cache, ui_interrupted, answers, located, clicks, after_stop,
                   sequences, screen, screen_changes>>

_verify_cache_Trusts == TRUE                                 \* mutant
\* capture_crop and the OCR look at the remembered place again.
_verify_cache == cache.position = screen.element

\* The whole screen is read; a text that is not there is forgotten.
_locate_full == [position |-> screen.element, expired |-> FALSE]

\* locate: the remembered place if its time is not over and the text is still there, else
\* the whole screen.
locate ==
    /\ SequenceAt("locate")
    /\ LET hit == cache.position # NoPosition /\ ~cache.expired /\ _verify_cache
       IN  /\ located' = [used |-> IF hit THEN cache.position ELSE screen.element,
                            seen |-> screen.element]
           /\ cache' = IF hit THEN cache ELSE _locate_full
    /\ SequenceGoes(IF screen.element = NoPosition THEN "idle" ELSE "act")
    /\ UNCHANGED <<ui_interrupted, answers, clicks, after_stop, sequences, screen,
                   screen_changes>>

Performed == UiStep.action \in {"click", "input"}

\* click, or click and input_text; an exception, or another action, ends the sequence.
_execute_step(succeeds) ==
    /\ SequenceAt("act")
    /\ clicks' = IF Performed THEN Append(clicks, located) ELSE clicks
    /\ after_stop' = IF Performed /\ ui_interrupted THEN after_stop + 1 ELSE after_stop
    /\ SequenceGoes(IF Performed /\ succeeds THEN "page" ELSE "idle")
    /\ UNCHANGED <<cache, ui_interrupted, answers, located, sequences, screen, screen_changes>>

\* A step that leads to a page ends the sequence when the identifier finds another shown.
_check_page ==
    /\ SequenceAt("page")
    /\ session_at' = IF "navigates_to" \in DOMAIN UiStep /\ screen.page # UiStep.navigates_to
                     THEN [session_at EXCEPT !.place = "idle"]
                     ELSE [place |-> "step", step |-> session_at.step + 1]
    /\ UNCHANGED <<cache, ui_interrupted, answers, located, clicks, after_stop,
                   sequences, screen, screen_changes>>

ScreenChanges ==
    /\ screen_changes < MaxScreenChanges /\ screen_changes' = screen_changes + 1
    /\ screen' \in [element : Positions \cup {NoPosition}, page : PageIds]
    /\ UNCHANGED sessionVars

\* cache_ttl is over.
CacheExpires ==
    /\ cache.position # NoPosition /\ ~cache.expired
    /\ cache' = [cache EXCEPT !.expired = TRUE]
    /\ UNCHANGED <<session_at, ui_interrupted, answers, located, clicks, after_stop,
                   sequences, screen, screen_changes>>

invalidate ==
    /\ cache.position # NoPosition
    /\ cache' = [position |-> NoPosition, expired |-> FALSE]
    /\ UNCHANGED <<session_at, ui_interrupted, answers, located, clicks, after_stop,
                   sequences, screen, screen_changes>>

UiNext ==
    \/ execute_sequence \/ stop \/ BeginStep \/ locate \/ _check_page
    \/ \E b \in BOOLEAN : answer_consent(b) \/ _execute_step(b)
    \/ ScreenChanges \/ CacheExpires \/ invalidate

UiSpec == UiInit /\ [][UiNext]_uiVars
-----------------------------------------------------------------------------
UiTypeOK ==
    /\ session_at.place \in {"idle", "ask", "step", "locate", "act", "page"}
    /\ session_at.step \in 0..Len(UiSteps) + 1
    /\ ui_interrupted \in BOOLEAN /\ Len(answers) <= 2
    /\ cache.position \in Positions \cup {NoPosition} /\ Len(clicks) <= Len(UiSteps)

\* After stop() at most the step that was under way is still performed, however the calls
\* fall; a click goes where the text was when the step looked for it, not where it was
\* remembered; and nothing happens before every answer the sequence needs was yes
\* (UIAutomationSession.stop, execute_sequence, PageLocator.locate).
UiStopsAndLooks ==
    /\ after_stop <= 1
    /\ \A i \in DOMAIN clicks : clicks[i].used = clicks[i].seen
    /\ clicks # <<>> => answers = IF IsHard THEN <<TRUE, TRUE>> ELSE <<TRUE>>

-----------------------------------------------------------------------------
(***************************************************************************)
(* The annotation window: AnnotationSession collects pages, elements and   *)
(* transitions in memory, one request of the window after the other,       *)
(* derives each page's features and exports a skill package as two files;  *)
(* PageIdentifier reads the exported map and names the page on the screen. *)
(***************************************************************************)

CONSTANTS
    AnnotatedPages, ElementIds,
    Words,            \* texts an OCR run can find on a page
    NoMap,            \* ui_map.yaml is not there
    MaxAnnotations    \* bound on the pages, elements and transitions added

ASSUME AnnotationAssumption == IsFiniteSet(Words) /\ MaxAnnotations \in Nat

VARIABLES
    pages,            \* AnnotationSession.pages
    transitions,
    page_texts,       \* per page: the texts its features were computed from
    package,          \* the exported files: the manifest, the map
    exporting,        \* the manifest is written and the map is not
    annotations

annotationVars == <<pages, transitions, page_texts, package, exporting, annotations>>

AnnotationInit ==
    /\ pages = <<>>
    /\ transitions = {}
    /\ page_texts = [p \in AnnotatedPages |-> {}]
    /\ package = [manifest |-> FALSE, map |-> NoMap]
    /\ exporting = FALSE
    /\ annotations = 0

HasPage(id) == \E i \in DOMAIN pages : pages[i].id = id
Annotates == annotations < MaxAnnotations /\ annotations' = annotations + 1

-----------------------------------------------------------------------------
\* An id that is taken is refused.
add_page(id) ==
    /\ ~exporting /\ ~HasPage(id)
    /\ Annotates
    /\ pages' = Append(pages, [id |-> id, features |-> {}, elements |-> {}])
    /\ UNCHANGED <<transitions, page_texts, package, exporting>>

\* detect_danger: the worst keyword in the target text.
detect_danger(keywords) == CASE "hard" \in keywords -> "hard"
                             [] "hard" \notin keywords /\ "soft" \in keywords -> "soft"
                             [] OTHER -> "none"

\* The page exists, the region is a rectangle in percent, the id is new on the page.
add_element(page, id, keywords) ==
    /\ ~exporting
    /\ Annotates
    /\ \E i \in DOMAIN pages :
          /\ pages[i].id = page /\ \A e \in pages[i].elements : e.id # id
          /\ pages' = [pages EXCEPT ![i].elements =
                         @ \cup {[id |-> id, danger |-> detect_danger(keywords)]}]
    /\ UNCHANGED <<transitions, page_texts, package, exporting>>

\* Both pages exist; nobody looks whether the element does.
add_transition(from, to, element) ==
    /\ ~exporting /\ HasPage(from) /\ HasPage(to)
    /\ Annotates
    /\ transitions' = transitions \cup {[from |-> from, to |-> to, target |-> element]}
    /\ UNCHANGED <<pages, page_texts, package, exporting>>

\* The texts every page shows; a page without texts leaves nothing in common.
Common(texts) == {w \in Words : \A i \in DOMAIN pages : w \in texts[pages[i].id]}

generate_features(texts) ==
    /\ ~exporting /\ pages # <<>>
    /\ page_texts' = [p \in AnnotatedPages |-> IF HasPage(p) THEN texts[p] ELSE {}]
    /\ pages' = [i \in DOMAIN pages |->
                   [pages[i] EXCEPT !.features = texts[pages[i].id] \ Common(texts)]]
    /\ UNCHANGED <<transitions, package, exporting, annotations>>

-----------------------------------------------------------------------------
\* export: a session without pages is refused; manifest.json, then ui_map.yaml.
ExportManifest ==
    /\ ~exporting /\ pages # <<>>
    /\ package' = [package EXCEPT !.manifest = TRUE]
    /\ exporting' = TRUE
    /\ UNCHANGED <<pages, transitions, page_texts, annotations>>

ExportMap ==
    /\ exporting
    /\ package' = [package EXCEPT !.map = [pages |-> pages, transitions |-> transitions,
                                           shot |-> page_texts]]
    /\ exporting' = FALSE
    /\ UNCHANGED <<pages, transitions, page_texts, annotations>>

\* The session lives in the desktop process only.
AnnotationRestart ==
    /\ pages # <<>>
    /\ pages' = <<>> /\ transitions' = {} /\ exporting' = FALSE
    /\ page_texts' = [p \in AnnotatedPages |-> {}]
    /\ UNCHANGED <<package, annotations>>

\* No keyword, a soft one, a soft and a hard one.
Keywords == {{}, {"soft"}, {"soft", "hard"}}

AnnotationNext ==
    \/ \E p \in AnnotatedPages :
          \/ add_page(p)
          \/ \E e \in ElementIds, k \in Keywords : add_element(p, e, k)
          \/ \E q \in AnnotatedPages, e \in ElementIds : add_transition(p, q, e)
    \/ \E texts \in [AnnotatedPages -> SUBSET Words] : generate_features(texts)
    \/ ExportManifest \/ ExportMap \/ AnnotationRestart

AnnotationSpec == AnnotationInit /\ [][AnnotationNext]_annotationVars

-----------------------------------------------------------------------------
\* PageIdentifier.identify: the first page with the highest share of its features on the
\* screen, if that share is at least six tenths; a page without features is passed over.
Hits(page, on_screen) == Cardinality(page.features \cap on_screen)
Size(page) == Cardinality(page.features)
Reaches(page, on_screen) == page.features # {} /\ 10 * Hits(page, on_screen) >= 6 * Size(page)
Beats(page, other, on_screen) ==
    Hits(page, on_screen) * Size(other) > Hits(other, on_screen) * Size(page)

identify(known, on_screen) ==
    LET reaching == {i \in DOMAIN known : Reaches(known[i], on_screen)}
        best == {i \in reaching : \A j \in reaching : ~Beats(known[j], known[i], on_screen)}
        first == CHOOSE i \in best : \A j \in best : i <= j
    IN  IF reaching = {} THEN <<>> ELSE <<known[first]>>

AnnotationTypeOK ==
    /\ \A i \in DOMAIN pages : pages[i].id \in AnnotatedPages /\ pages[i].features \subseteq Words
    /\ page_texts \in [AnnotatedPages -> SUBSET Words]
    /\ package.manifest \in BOOLEAN /\ exporting \in BOOLEAN
    /\ annotations \in 0..MaxAnnotations

\* An exported map can be used: its transitions join pages it has, and on the screen a page
\* was annotated from the page is recognised, as soon as it shows something another page does
\* not and no other page's texts are all on it (generate_features, identify).
MapIsUsable ==
    package.map # NoMap =>
       LET map == package.map
           known == {map.pages[i].id : i \in DOMAIN map.pages}
           Shot(i) == map.shot[map.pages[i].id]
           Others(i) == DOMAIN map.pages \ {i}
       IN  /\ package.manifest
           /\ \A t \in map.transitions : {t.from, t.to} \subseteq known
           /\ \A i \in DOMAIN map.pages :
                 /\ \E j \in Others(i) : ~(Shot(i) \subseteq Shot(j))
                 /\ \A j \in Others(i) : ~(Shot(j) \subseteq Shot(i))
                 => identify(map.pages, Shot(i)) = <<map.pages[i]>>
=============================================================================
