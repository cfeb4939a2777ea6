--------------------------- MODULE GeneratorScreen ---------------------------
(***************************************************************************)
(* The generator of contents (apps/web, contents/content-generator): a     *)
(* form, with a saved idea as the source or a brief, the draft that the    *)
(* provider wrote, which the member may edit, and its saving.  The handlers *)
(* of the API (apps/api, contents) check the idea when they start; another *)
(* member archives ideas.  A content is saved with the idea and the format *)
(* that the form has then, whatever the draft was generated from.          *)
(***************************************************************************)
EXTENDS ScreenCalls

CONSTANTS Idea, Format

None == "none"

\* What the form knows of an idea: the format it recommends, when it is one that
\* can be generated, and its category, when it has one.
Source == [recommended : Format \cup {None}, category : BOOLEAN]

\* topic: None, the category of an idea, or typed by the member.
Topic == Idea \cup {None, "typed"}

\* idea: the one selected; brief: one was typed.  draft: whether there is one, and
\* from: the idea it was generated from, or None.
View == [ideas : SUBSET Idea, idea : Idea \cup {None}, format : Format, topic : Topic,
         brief : BOOLEAN, draft : BOOLEAN, from : Idea \cup {None}, loading : BOOLEAN,
         generating : BOOLEAN, saving : BOOLEAN, gone : BOOLEAN]

\* changed: the idea was changed since the draft was generated.  stuck: an answer
\* never came.  archived: an idea was archived.
Past == [changed : BOOLEAN, stuck : BOOLEAN, archived : BOOLEAN]

Saved == [idea : Idea \cup {None}, from : Idea \cup {None}, format : Format, topic : Topic]

TypeOK ==
    /\ view \in View /\ past \in Past
    /\ server.ideas \subseteq Idea /\ server.source \in [Idea -> Source]
    /\ server.contents \in Seq(Saved)
    /\ asked \in Nat /\ troubles \in Nat

-----------------------------------------------------------------------------
(* The API.                                                                *)

\* listSourceIdeas: the ideas that are not archived.
ListSourceIdeas(i) ==
    call[i].op = "load" /\ Serves(i, server.ideas) /\ UNCHANGED server

\* findIdeaOrThrow
Finds(o) == o = None \/ o \in server.ideas

\* generateDraft: the answer names the idea.
GenerateDraft(i) ==
    /\ call[i].op = "generate"
    /\ IF Finds(call[i].arg) THEN Serves(i, call[i].arg) /\ UNCHANGED server ELSE NotFound(i)

\* resolveTopic: the topic given, or the category of the idea.
ResolveTopic(form) ==
    IF form.topic # None THEN form.topic
    ELSE IF form.idea # None /\ server.source[form.idea].category THEN form.idea ELSE None

\* saveContent
SaveContent(i) ==
    LET form == call[i].arg
    IN  /\ call[i].op = "save"
        /\ IF Finds(form.idea)
           THEN /\ server' = [server EXCEPT !.contents =
                        Append(@, [form EXCEPT !.topic = ResolveTopic(form)])]
                /\ Serves(i, <<>>)
           ELSE NotFound(i)

Serve(i) ==
    call[i].state = "sent" /\ (ListSourceIdeas(i) \/ GenerateDraft(i) \/ SaveContent(i))

\* Another member archives an idea.
ArchivedElsewhere ==
    /\ asked < MaxAsked /\ asked' = asked + 1
    /\ \E o \in server.ideas : server' = [server EXCEPT !.ideas = @ \ {o}]
    /\ past' = [past EXCEPT !.archived = TRUE]
    /\ UNCHANGED <<view, call, troubles>>

-----------------------------------------------------------------------------

\* The page may be opened on an idea, archived or not.
Init ==
    /\ \E ideas \in SUBSET Idea, source \in [Idea -> Source], initial \in Idea \cup {None},
          f \in Format :
        /\ server = [ideas |-> ideas, source |-> source, contents |-> <<>>]
        /\ view = [ideas |-> {}, idea |-> initial, format |-> f, topic |-> None,
                   brief |-> FALSE, draft |-> FALSE, from |-> None, loading |-> TRUE,
                   generating |-> FALSE, saving |-> FALSE, gone |-> FALSE]
        /\ call = <<Call("load", initial)>>
    /\ past = [changed |-> FALSE, stuck |-> FALSE, archived |-> FALSE]
    /\ asked = 0 /\ troubles = 0

\* hydrateSelectedIdea: the format and the topic follow an idea that is listed, when
\* it has them.
HydrateSelectedIdea(v, o) ==
    IF o \notin v.ideas THEN v
    ELSE [v EXCEPT
            !.format = IF server.source[o].recommended # None
                       THEN server.source[o].recommended ELSE @,
            !.topic = IF server.source[o].category THEN o ELSE @]

-----------------------------------------------------------------------------
(* What the member does.                                                   *)

Fills(v) ==
    /\ Asks /\ v # view /\ view' = v
    /\ UNCHANGED <<call, past>>

ChooseFormat == \E f \in Format : Fills([view EXCEPT !.format = f])

\* The topic is a field of the draft.
Type ==
    \/ Fills([view EXCEPT !.brief = ~@])
    \/ view.draft /\ \E t \in {None, "typed"} : Fills([view EXCEPT !.topic = t])

\* The selection is closed while the ideas are loading.
HandleIdeaChange ==
    /\ ~view.loading
    /\ \E o \in view.ideas \cup {None} :
        /\ Asks /\ o # view.idea
        /\ view' = HydrateSelectedIdea([view EXCEPT !.idea = o], o)
    /\ past' = [past EXCEPT !.changed = TRUE]
    /\ UNCHANGED call

HandleGenerate ==
    /\ Asks /\ ~view.generating /\ (view.brief \/ view.idea # None)
    /\ view' = [view EXCEPT !.generating = TRUE]
    /\ call' = Append(call, Call("generate", view.idea))
    /\ UNCHANGED past

\* The draft may be replaced while it is saved.
HandleSave ==
    /\ Asks /\ view.draft /\ ~view.saving
    /\ view' = [view EXCEPT !.saving = TRUE]
    /\ call' = Append(call, Call("save", [idea |-> view.idea, from |-> view.from,
                                          format |-> view.format, topic |-> view.topic]))
    /\ UNCHANGED past

-----------------------------------------------------------------------------
(* What the answers do.                                                    *)

Throws(i) ==
    /\ call[i].state = "thrown" /\ past' = [past EXCEPT !.stuck = TRUE] /\ UNCHANGED view

\* The format that was chosen while the ideas were loading is lost.
LoadAnswer(i) ==
    /\ Takes(i, "load") /\ call' = Rest(i)
    /\ \/ /\ call[i].state = "ok"
          /\ view' = HydrateSelectedIdea([view EXCEPT !.ideas = call[i].answer,
                                                      !.loading = FALSE], call[i].arg)
          /\ UNCHANGED past
       \/ call[i].state = "error" /\ view' = [view EXCEPT !.loading = FALSE] /\ UNCHANGED past
       \/ Throws(i)

GenerateAnswer(i) ==
    /\ Takes(i, "generate") /\ call' = Rest(i)
    /\ \/ /\ call[i].state = "ok"
          /\ LET o == call[i].answer
             IN  view' = [view EXCEPT
                    !.generating = FALSE, !.draft = TRUE, !.from = o,
                    !.topic = IF o # None /\ server.source[o].category THEN o ELSE @]
          /\ past' = [past EXCEPT !.changed = view.idea # call[i].answer]
       \/ call[i].state = "error" /\ view' = [view EXCEPT !.generating = FALSE] /\ UNCHANGED past
       \/ Throws(i)

SaveAnswer(i) ==
    /\ Takes(i, "save") /\ call' = Rest(i)
    /\ \/ /\ call[i].state = "ok"
          /\ view' = [view EXCEPT !.saving = FALSE, !.gone = TRUE]
          /\ UNCHANGED past
       \/ call[i].state = "error" /\ view' = [view EXCEPT !.saving = FALSE] /\ UNCHANGED past
       \/ Throws(i)

Member == ChooseFormat \/ Type \/ HandleIdeaChange \/ HandleGenerate \/ HandleSave

Answer(i) == LoadAnswer(i) \/ GenerateAnswer(i) \/ SaveAnswer(i)

\* Nothing is taken once the page of the saved content has replaced this one.
Next ==
    /\ ~view.gone
    /\ \/ Member \/ ArchivedElsewhere
       \/ \E i \in DOMAIN call : Serve(i) \/ Refuses(i) \/ Breaks(i) \/ Answer(i)

Spec == Init /\ [][Next]_screenVars

-----------------------------------------------------------------------------

\* One visit of the page saves one content at most, and leaves for it.  A content
\* names the idea it was generated from, unless the member changed the idea since.
\* Only ideas that are there can be selected, but the one the page was opened on.
SavesTheDraft ==
    /\ Len(server.contents) <= 1
    /\ view.gone => Len(server.contents) = 1
    /\ ~past.changed /\ view.draft => view.from = view.idea
    /\ ~past.archived => view.ideas \subseteq server.ideas

\* The screen waits only for a call under way, unless one threw.
WaitsForCall ==
    ~past.stuck =>
        /\ view.loading <=> Under({"load"})
        /\ view.generating <=> Under({"generate"})
        /\ view.saving <=> Under({"save"})
=============================================================================
