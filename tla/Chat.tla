-------------------------------- MODULE Chat --------------------------------
(***************************************************************************)
(* One chat stream.  The model is first asked whether it needs tools, round *)
(* by round; then its answer is streamed, and it may still ask for tools.   *)
(* A guard keeps tool-call markup that leaks into the text away from the    *)
(* shopper, however the text is cut into chunks.  Text is a sequence of     *)
(* tokens: the characters a marker is made of ("D" and "M" stand for the    *)
(* halves of its word) and "x" for any other; white space inside a marker   *)
(* is left out.                                                             *)
(***************************************************************************)
EXTENDS Nothing, Integers, SequencesExt

CONSTANTS Texts,                   \* what the model may say in a streamed reply
          MAX_TOOL_ROUNDS, MAX_STREAM_TOOL_ROUNDS,
          MaxCalls,                \* bound: tool calls of one reply
          Shelf,                   \* plants in the order of their names
          Queries,                 \* plant_query, and the slug normalize_slug makes of it
          ListLimit                \* LIMIT of the search by name

ChatAssumption ==
    /\ {MAX_TOOL_ROUNDS, MAX_STREAM_TOOL_ROUNDS, MaxCalls, ListLimit} \subseteq Nat
    /\ MAX_TOOL_ROUNDS > 0
    /\ \A s \in Texts : s \in Seq({"<", "/", "|", "D", "M", "x"})
    /\ Shelf \in Seq([name : Seq(STRING), name_vi : Seq(STRING), slug : Seq(STRING)])
    /\ None \notin {"done", "gone", "timeout", "error"}

VARIABLES
    phase,       \* routing or streaming
    stage,       \* ask, read, run or end
    round,       \* of the phase
    reply,       \* what the model says in this round
    got,         \* how much of it has been read
    shown,       \* of this round, to the shopper
    pending,     \* held back by the guard
    captured,    \* swallowed by the guard
    emitted,     \* something has been shown in this stream
    fallback,    \* FALLBACK_REPLY has been shown
    todo,        \* tool calls still to execute
    answer,      \* of the catalogue tool that has just run
    db,          \* the session: no connection yet, a transaction, a failed one, closed
    outcome      \* how the stream ended

guardVars == <<reply, got, shown, pending, captured>>
chatVars == <<phase, stage, round, guardVars, emitted, fallback, todo, answer, db, outcome>>

ChatInit ==
    /\ phase = "routing" /\ stage = "ask" /\ round = 0
    /\ reply = <<>> /\ got = 0
    /\ shown = <<>> /\ pending = <<>> /\ captured = <<>>
    /\ emitted = FALSE /\ fallback = FALSE
    /\ todo = 0 /\ answer = None /\ db = "none"
    /\ outcome = None

\* The events that close the stream; leaving it returns the session's connection.
Close(how) == stage' = "end" /\ outcome' = how /\ db' = "closed"

\* Each round has a guard and a result of its own.
NoReply ==
    /\ reply' = <<>> /\ got' = 0
    /\ shown' = <<>> /\ pending' = <<>> /\ captured' = <<>>

----------------------------------------------------------------------------
(* Markers *)

Bars(n) == [i \in 1 .. n |-> "|"]

\* "<", perhaps "/", n bars, and a beginning of the word.
Tag(slash, n, word) == <<"<">> \o slash \o Bars(n) \o word
Tags(n, words) == {Tag(slash, n, word) : slash \in {<<>>, <<"/">>}, word \in words}

IsMarker(s) == \E n \in 1 .. Len(s) : s \in Tags(n, {<<"D", "M">>})

\* Fault: nothing but the first character is held back.
IsPartial_Bare(s) == s = <<"<">>

\* _partial_marker_start: a word needs bars before it.
IsPartial(s) ==
    \/ s \in Tags(0, {<<>>})
    \/ \E n \in 1 .. Len(s) : s \in Tags(n, {<<>>, <<"D">>})

Starts(s) == {i \in DOMAIN s : s[i] = "<" /\ \E j \in i .. Len(s) : IsMarker(SubSeq(s, i, j))}

ContainsMarker(s) == Starts(s) # {}

\* strip_tool_markup
Strip(s) ==
    IF ContainsMarker(s) THEN SubSeq(s, 1, (CHOOSE i \in Starts(s) : \A j \in Starts(s) : i <= j) - 1)
    ELSE s

\* The tail from the last "<" on, if it may still grow into a marker.
Held(s) ==
    LET from == {i \in DOMAIN s : s[i] = "<" /\ IsPartial(SubSeq(s, i, Len(s)))}
    IN IF from = {} THEN <<>> ELSE SubSeq(s, CHOOSE i \in from : TRUE, Len(s))

----------------------------------------------------------------------------
(* The catalogue tools *)

Occurs(part, s) == \E i \in 0 .. Len(s) - Len(part) : SubSeq(s, i + 1, i + Len(part)) = part

Hits(live, q) ==
    {i \in live : \E s \in {Shelf[i].name, Shelf[i].name_vi, Shelf[i].slug} : Occurs(q.text, s)}

\* By name, up to the limit.
Listed(live, q) == {i \in Hits(live, q) : Cardinality({j \in Hits(live, q) : j <= i}) <= ListLimit}

Exact(i, q) == q.text \in {Shelf[i].name, Shelf[i].name_vi}
BySlug(live, q) == {i \in live : Shelf[i].slug = q.slug}

\* Fault: the first hit, whatever else is hit.
FindActivePlant_First(live, q) ==
    IF BySlug(live, q) # {} THEN CHOOSE i \in BySlug(live, q) : TRUE
    ELSE IF Hits(live, q) = {} THEN 0 ELSE Min(Hits(live, q))

\* _find_active_plant: the place on the shelf, 0 for none.
FindActivePlant(live, q) ==
    LET matches == Listed(live, q)
        exact   == {i \in matches : Exact(i, q)}
    IN IF q.text = <<>> THEN 0
       ELSE IF BySlug(live, q) # {} THEN CHOOSE i \in BySlug(live, q) : TRUE
       ELSE IF matches = {} THEN 0
       ELSE Min(IF exact = {} THEN matches ELSE exact)

----------------------------------------------------------------------------
(* Rounds *)

\* Once the model wants no tool, or has had its rounds, the answer is streamed.
AfterTools ==
    IF phase = "routing" /\ round + 1 = MAX_TOOL_ROUNDS
    THEN phase' = "streaming" /\ round' = 0
    ELSE round' = round + 1 /\ UNCHANGED phase

Route(n) ==
    /\ phase = "routing" /\ stage = "ask"
    /\ IF n = 0 THEN phase' = "streaming" /\ round' = 0 /\ UNCHANGED <<stage, todo>>
       ELSE stage' = "run" /\ todo' = n /\ UNCHANGED <<phase, round>>
    /\ answer' = None
    /\ UNCHANGED <<guardVars, emitted, fallback, db, outcome>>

ToolDone ==
    /\ todo' = todo - 1
    /\ IF todo = 1 THEN stage' = "ask" /\ AfterTools ELSE UNCHANGED <<stage, phase, round>>
    /\ UNCHANGED <<guardVars, emitted, fallback, outcome>>

\* get_plant_price, check_stock.  The first read takes a connection and keeps it;
\* after a failed statement the transaction answers no other.
CatalogueTool(live, q) ==
    /\ stage = "run"
    /\ \/ /\ q.text = <<>> \/ db # "aborted"
          /\ answer' = [live |-> live, query |-> q, plant |-> FindActivePlant(live, q)]
          /\ db' = IF q.text = <<>> THEN db ELSE "open"
       \/ /\ q.text # <<>>
          /\ answer' = None
          /\ db' \in CASE db = "none" -> {"none", "aborted"} [] OTHER -> {"aborted"}
    /\ ToolDone

\* search_plant_knowledge, search_shop_faq, and calls that are not understood.
OtherTool == stage = "run" /\ ToolDone /\ answer' = None /\ UNCHANGED db

Ask(text) ==
    /\ phase = "streaming" /\ stage = "ask"
    /\ stage' = "read"
    /\ reply' = text
    /\ answer' = None
    /\ UNCHANGED <<phase, round, got, shown, pending, captured, emitted, fallback, todo, db, outcome>>

\* DsmlStreamGuard.feed, and the text it lets through is sent.
Feed(n) ==
    LET chunk == SubSeq(reply, got + 1, got + n)
        text == pending \o chunk
        safe == IF ContainsMarker(text) THEN Strip(text)
                ELSE SubSeq(text, 1, Len(text) - Len(Held(text)))
        rest == SubSeq(text, Len(safe) + 1, Len(text))
    IN /\ stage = "read" /\ n <= Len(reply) - got
       /\ got' = got + n
       /\ IF captured # <<>>
          THEN captured' = captured \o chunk /\ UNCHANGED <<shown, pending, emitted>>
          ELSE /\ shown' = shown \o safe
               /\ emitted' = (emitted \/ safe # <<>>)
               /\ captured' = IF ContainsMarker(text) THEN rest ELSE <<>>
               /\ pending' = IF ContainsMarker(text) THEN <<>> ELSE rest
       /\ UNCHANGED <<phase, stage, round, reply, fallback, todo, answer, db, outcome>>

\* Fault: only markup that cannot be parsed counts.
Suppressed_Unparsed(n) == n = 0 /\ captured # <<>>

\* The stream stops with markup nobody could use, or with calls beyond the last round.
Suppressed(n) == n > 0 \/ captured # <<>>

\* The native calls of a reply, else those that can be parsed from its markup.
ToolCalls(native, parsed) ==
    IF native > 0 THEN native ELSE IF captured = <<>> THEN 0 ELSE parsed

\* The reply ends: finish, then its calls.
EndOfReply(native, parsed) ==
    LET n == ToolCalls(native, parsed)
    IN /\ stage = "read" /\ got = Len(reply)
       /\ emitted' = (emitted \/ pending # <<>>)
       /\ todo' = n
       /\ IF n > 0 /\ round < MAX_STREAM_TOOL_ROUNDS
          THEN /\ stage' = "run"
               /\ NoReply
               /\ UNCHANGED <<fallback, db, outcome>>
          ELSE /\ shown' = shown \o pending /\ pending' = <<>>
               /\ fallback' = (Suppressed(n) /\ ~emitted')
               /\ Close("done")
               /\ UNCHANGED <<reply, got, captured>>
       /\ UNCHANGED <<phase, round, answer>>

\* A request or a chunk that does not arrive in time, is refused or breaks off.
BreakOff(how) ==
    /\ stage \in {"ask", "read"}
    /\ Close(how)
    /\ UNCHANGED <<phase, round, guardVars, emitted, fallback, todo, answer>>

\* The shopper leaves: the generator is cancelled where it is.
Disconnect ==
    /\ stage # "end"
    /\ Close("gone")
    /\ UNCHANGED <<phase, round, guardVars, emitted, fallback, todo, answer>>

ChatNext ==
    \/ \E n \in 0 .. MaxCalls : Route(n)
    \/ \E live \in SUBSET (DOMAIN Shelf), q \in Queries : CatalogueTool(live, q)
    \/ OtherTool
    \/ \E text \in Texts : Ask(text)
    \/ \E n \in 1 .. Len(reply) : Feed(n)
    \/ \E native, parsed \in 0 .. MaxCalls : EndOfReply(native, parsed)
    \/ \E how \in {"timeout", "error"} : BreakOff(how)
    \/ Disconnect

ChatSpec == ChatInit /\ [][ChatNext]_chatVars

----------------------------------------------------------------------------
(* Properties *)

\* The markup "must never reach users" and no other text may be lost: however the
\* reply is cut into chunks, what is shown and held back is the text before the
\* first marker, all of it, and the rest is captured.
GuardExact ==
    LET said == SubSeq(reply, 1, got) IN
    /\ shown \o pending = Strip(said)
    /\ shown \o pending \o captured = said

\* A stream that is done has told the shopper something, unless the model's last
\* reply was empty and asked for nothing: markup that was swallowed, and tools
\* asked for beyond the last round, are answered for by the fallback.
NeverSilent ==
    outcome = "done" /\ ~emitted /\ ~fallback => reply = <<>> /\ todo = 0

\* Among plants whose names hold what was asked for, one that bears exactly that
\* name is answered, as long as no more are found than the search returns.
ExactNameFirst ==
    answer # None /\ Cardinality(Hits(answer.live, answer.query)) <= ListLimit
        /\ answer.query.text # <<>> /\ BySlug(answer.live, answer.query) = {} =>
      \/ answer.plant \in answer.live /\ Exact(answer.plant, answer.query)
      \/ /\ ~\E i \in answer.live : Exact(i, answer.query)
         /\ answer.plant = 0 <=> Hits(answer.live, answer.query) = {}

\* The stream is of the shapes the code gives it, and tools are run only when asked for.
ChatTypeOK ==
    /\ phase \in {"routing", "streaming"} /\ stage \in {"ask", "read", "run", "end"}
    /\ round \in 0 .. MAX_TOOL_ROUNDS + MAX_STREAM_TOOL_ROUNDS
    /\ phase = "streaming" => round <= MAX_STREAM_TOOL_ROUNDS
    /\ todo \in 0 .. MaxCalls
    /\ stage = "run" => todo > 0
    /\ got <= Len(reply)
    /\ outcome # None <=> stage = "end"
=============================================================================
