------------------------------- MODULE Crawler -------------------------------
(***************************************************************************)
(* 3700Crawler: the login of Crawler.run, and the server it talks to.      *)
(*                                                                         *)
(* The client has one connection, asks, and waits for the answer with at   *)
(* most two calls of recv.  A call returns some of the bytes under way,    *)
(* at least one, and waits if there is none.  The server is not part of    *)
(* the repository: it answers as the notes of 3700Crawler/README.md show,  *)
(* and may close the connection at any moment.                             *)
(***************************************************************************)
EXTENDS HTTPResponse

CONSTANTS
    ASSUMED_MAX_PACKAGE_SIZE,  \* bytes the first recv asks for
    Filler,                    \* bytes of a page after its token
    WideChars,                 \* characters of two bytes in a page
    SessionLast                \* the session cookie is the last one set

ASSUME CrawlerAssumption == /\ ASSUMED_MAX_PACKAGE_SIZE \in Nat \ {0}
                            /\ Filler \in Nat
                            /\ WideChars \in Nat
                            /\ SessionLast \in BOOLEAN

VARIABLES
    pc,        \* where the client is: "start", waiting for "page" or "reply",
               \* for the "page rest" or "reply rest", "logged in", "raised"
    header,    \* header of the answer whose rest is waited for
    csrf,      \* header_cookie
    session,   \* session_id
    request,   \* what the server has not answered yet
    incoming,  \* bytes from the server that the client has not received
    closed,    \* the server has closed the connection
    valid,     \* the server knows this user and password
    whole      \* no answer has been cut by the first recv so far

client == <<pc, header, csrf, session>>
vars == <<client, request, incoming, closed, valid, whole>>

NoRequest == [type |-> "none", cookie |-> 0, token |-> 0]
GetPage   == [type |-> "GET", cookie |-> 0, token |-> 0]
PostLogin(cookie, token) == [type |-> "POST", cookie |-> cookie, token |-> token]

Init ==
    /\ pc = "start"
    /\ header = NoHeader
    /\ csrf = 0 /\ session = 0
    /\ request = NoRequest
    /\ incoming = <<>>
    /\ closed = FALSE
    /\ valid \in BOOLEAN
    /\ whole = TRUE

-----------------------------------------------------------------------------
(* The server.  Tokens: 1 on the page, 2 and the session 3 after a login.  *)
PageToken == 1
NextToken == 2
Session   == 3
Tokens    == 0 .. 3

Wide == FlattenSeq([i \in 1..WideChars |-> <<LEAD, TRAIL>>])
Body == <<TEXT, Byte("token", PageToken), SPACE>> \o Wide \o [i \in 1..Filler |-> TEXT]

Answer(code, lines, body) ==
    <<VERSION, SPACE, Byte("code", code)>> \o LINE_ENDING
      \o FlattenSeq([i \in DOMAIN lines |-> <<lines[i]>> \o LINE_ENDING])
      \o LINE_ENDING \o body

(* A page: the lines of its header come in any order.                      *)
PageLines == {Byte("length", Len(Body)), Byte("csrftoken", PageToken), Byte("other", 0)}
Pages == {Answer(200, lines, Body) : lines \in SetToSeqs(PageLines)}

NewCookies == IF SessionLast
              THEN <<Byte("csrftoken", NextToken), Byte("sessionid", Session)>>
              ELSE <<Byte("sessionid", Session), Byte("csrftoken", NextToken)>>
Redirect  == Answer(302, <<Byte("length", 0), Byte("location", 0)>> \o NewCookies, <<>>)
Forbidden == Answer(403, <<Byte("length", 0)>>, <<>>)

Replies == IF request.cookie # PageToken \/ request.token # PageToken THEN {Forbidden}
           ELSE IF valid THEN {Redirect} ELSE Pages

Serve(type, answers) ==
    /\ request.type = type
    /\ ~closed
    /\ \E answer \in answers : incoming' = incoming \o answer
    /\ request' = NoRequest
    /\ UNCHANGED <<client, closed, valid, whole>>

ServePage  == Serve("GET", Pages)
ServeLogin == Serve("POST", Replies)

CloseConnection ==
    /\ ~closed
    /\ closed' = TRUE
    /\ UNCHANGED <<client, request, incoming, valid, whole>>

-----------------------------------------------------------------------------
(* What recv(size) may return; nothing if it has to wait, '' at the end.   *)
Received(size) ==
    {SubSeq(incoming, 1, k) : k \in 1 .. Min({size, Len(incoming)})}
      \cup {<<>> : c \in {c \in {closed} : c /\ incoming = <<>>}}

Consume(bytes) == incoming' = SubSeq(incoming, Len(bytes) + 1, Len(incoming))

Raise == pc' = "raised" /\ UNCHANGED <<header, csrf, session, request>>

(* Crawler.run and login: the page is asked for.                           *)
GetLoginPage ==
    /\ pc = "start"
    /\ pc' = "page"
    /\ request' = GetPage
    /\ UNCHANGED <<header, csrf, session, incoming, closed, valid, whole>>

TokensIn(component) == {i \in DOMAIN component : component[i].is = "token"}

(* Mutated form: a page without a cookie will do.                          *)
UsePageUnchecked(head, component) ==
    IF TokensIn(component) # {}
    THEN /\ csrf' = head.cookie.n
         /\ \E i \in TokensIn(component) :
               request' = PostLogin(head.cookie.n, component[i].n)
         /\ pc' = "reply"
         /\ header' = NoHeader
         /\ UNCHANGED session
    ELSE Raise

(* The page: its cookie and its only token go into the POST.               *)
UsePage(head, component) ==
    IF head.cookie.is = "csrftoken" /\ Cardinality(TokensIn(component)) = 1
    THEN /\ csrf' = head.cookie.n
         /\ \E i \in TokensIn(component) :
               request' = PostLogin(head.cookie.n, component[i].n)
         /\ pc' = "reply"
         /\ header' = NoHeader
         /\ UNCHANGED session
    ELSE Raise

(* Mutated form: whatever cookie comes last is the session.                *)
UseAnyCookie(head) ==
    IF head.cookie # Missing
    THEN /\ session' = head.cookie.n
         /\ pc' = "logged in"
         /\ header' = NoHeader
         /\ UNCHANGED <<csrf, request>>
    ELSE Raise

(* The reply: its last cookie has to be the session.                       *)
UseReply(head) ==
    IF head.cookie.is = "sessionid"
    THEN /\ session' = head.cookie.n
         /\ pc' = "logged in"
         /\ header' = NoHeader
         /\ UNCHANGED <<csrf, request>>
    ELSE Raise

Use(stage, head, component) ==
    IF stage = "page" THEN UsePage(head, component) ELSE UseReply(head)

RestOf == [page |-> "page rest", reply |-> "reply rest"]
Stages == DOMAIN RestOf

(* The first recv, and all that follows up to the next one.                *)
ReadHeader(stage) ==
    /\ pc = stage
    /\ \E bytes \in Received(ASSUMED_MAX_PACKAGE_SIZE) :
         /\ Consume(bytes)
         /\ whole' = (whole /\ bytes = incoming)
         /\ IF ~Decodes(bytes) \/ ~HasStatus(Line(bytes)) THEN Raise
            ELSE LET head == Header(bytes)
                 IN  IF RemainingContentSize(head) > 0
                     THEN /\ pc' = RestOf[stage]
                          /\ header' = head
                          /\ UNCHANGED <<csrf, session, request>>
                     ELSE Use(stage, head, head.rest)
    /\ UNCHANGED <<closed, valid>>

(* The second recv asks for the rest of the content, and is the last.      *)
ReadRest(stage) ==
    /\ pc = RestOf[stage]
    /\ \E bytes \in Received(RemainingContentSize(header)) :
         /\ Consume(bytes)
         /\ IF Decodes(bytes) THEN Use(stage, header, header.rest \o bytes) ELSE Raise
    /\ UNCHANGED <<closed, valid, whole>>

(* extract_response_data raises, or returns None, which cannot be unpacked.*)
ExtractResponseData ==
    /\ pc = "logged in"
    /\ Raise
    /\ UNCHANGED <<incoming, closed, valid, whole>>

Ended == pc = "raised" /\ UNCHANGED vars

ClientStep == GetLoginPage \/ (\E s \in Stages : ReadHeader(s) \/ ReadRest(s))
                \/ ExtractResponseData
Next == ClientStep \/ ServePage \/ ServeLogin \/ CloseConnection \/ Ended

(* The client does nothing but this; a server that has not closed the      *)
(* connection answers.                                                     *)
Spec == /\ Init /\ [][Next]_vars
        /\ WF_vars(ClientStep)
        /\ WF_vars(ServePage)
        /\ WF_vars(ServeLogin)
-----------------------------------------------------------------------------
(* The types.  The credentials are sent with the cookie and the token of   *)
(* the page, however the page was cut, and a second recv is called only    *)
(* for something.                                                          *)
CrawlerTypeOK ==
    /\ pc \in {"start", "logged in", "raised"} \cup Stages \cup {RestOf[s] : s \in Stages}
    /\ csrf \in {0, PageToken}
    /\ session \in {0, Session}
    /\ request \in {NoRequest, GetPage, PostLogin(PageToken, PageToken)}
    /\ closed \in BOOLEAN /\ valid \in BOOLEAN /\ whole \in BOOLEAN
    /\ Len(incoming) <= 2 * Len(Answer(200, SetToSeq(PageLines), Body))
    /\ (\E s \in Stages : pc = RestOf[s]) => RemainingContentSize(header) > 0

(* login returns only with the session that the server has issued to this  *)
(* user, whatever recv has cut off and whatever was left of the page in    *)
(* front of the reply.                                                     *)
SessionIsIssued == pc = "logged in" => valid /\ session = Session /\ csrf = PageToken

(* If each answer comes in one piece, the connection lasts and the user is *)
(* known, login does not raise: neither the order of the header lines nor  *)
(* the second cookie of the reply puts it off.                             *)
RaisesForCause == pc = "raised" /\ session = 0 => closed \/ ~valid \/ ~whole

(* Login comes to an end: no recv waits for bytes that nobody will send.   *)
LoginEnds == <>(pc \in {"logged in", "raised"})

(* The page is read to its end before the login is sent: nothing of it is  *)
(* left in front of the reply.                                             *)
PageIsReadToItsEnd == request.type = "POST" => incoming = <<>>
=============================================================================
