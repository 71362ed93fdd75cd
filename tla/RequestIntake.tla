---------------------------- MODULE RequestIntake ----------------------------
(***************************************************************************)
(* How a request comes to mg_web_process and how its reply gets back: the  *)
(* handlers of the three adapters and mg_web up to the content.  Apache    *)
(* and IIS serve a request in the call of their handler.  NGINX is evented:*)
(* mg_web only prepares the request, NGINX reads all of its content, and a *)
(* callback, mg_payload_handler, serves it, in a thread pool if there is   *)
(* one; when the content does not come at once, that callback has NGINX    *)
(* run the handler once more.                                              *)
(***************************************************************************)
EXTENDS Naturals, Sequences, FiniteSetsExt, SequencesExt

CONSTANTS
    Bodies,      \* contents of requests, see BodyRecord
    Adapters,    \* web servers: a subset of {"nginx", "apache", "iis"}
    Paths,       \* the configured paths: [name |-> , admin |-> ]
    Scripts,     \* what requests ask for: names, as sequences
    Foreign,     \* those that are not for mg_web
    Faults       \* what may go wrong: a subset of FaultKinds

\* "write", "reset": a write, or the read of the answer, fails; "leave": the
\* client leaves before it has sent everything; "memory": there is none for the
\* request; "pool": the thread pool of NGINX is missing or takes no more tasks
FaultKinds == {"write", "reset", "leave", "memory", "pool"}

\* how: there is none, its length is announced, or it comes in HTTP chunks.
\* partial: its last bytes are the beginning of a boundary, which no complete
\* multipart content is.
BodyRecord == [how : {"none", "length", "chunked"}, len : Nat, partial : Nat]

ASSUME RequestIntakeAssumption ==
    /\ Bodies \subseteq BodyRecord
    /\ \A b \in Bodies : /\ b.partial <= b.len
                         /\ b.how = "length" => b.len > 0
                         /\ b.how = "none" => b.len = 0
    /\ Adapters \subseteq {"nginx", "apache", "iis"}
    /\ Foreign \subseteq Scripts
    /\ Faults \subseteq FaultKinds

VARIABLES
    adapter, body, script, \* of this request
    arrived,    \* how much of the content reaches the web server
    stage,      \* where the request is
    complete,   \* r->request_body: NGINX has read the content
    reply       \* what the client is told: "none", "declined", "error", "admin" or "answer"

request == <<adapter, body, script, arrived>>
intake == <<stage, complete, reply>>

gone == arrived < body.len
evented == adapter = "nginx"

\* The stages of a request: "serve" is mg_web_process, with the reading of the
\* content before it; the last four are its ends.
Stages == {"arrive", "head", "await", "more", "serve", "over", "dropped", "stranded", "crashed"}

---------------------------------------------------------------------------
\* mg_get_path_configuration: the path with the longest name that the script
\* begins with, 0 if there is none.
Configured(s) == {p \in DOMAIN Paths : Paths[p].name # <<>> /\ IsPrefix(Paths[p].name, s)}

PathOf(s) ==
    IF Configured(s) = {} THEN 0
    ELSE LET longest == Max({Len(Paths[p].name) : p \in Configured(s)})
         IN  Min({p \in Configured(s) : Len(Paths[p].name) = longest})

path == PathOf(script)
unconfigured == path = 0
administrative == path # 0 /\ Paths[path].admin

\* A reply is sent once: the header of another one is refused by NGINX.
Reply(r) == reply' = IF reply = "none" THEN r ELSE reply

InitIntake ==
    /\ adapter \in Adapters /\ body \in Bodies /\ script \in Scripts
    /\ arrived \in (IF "leave" \in Faults THEN 0..body.len ELSE {body.len})
    /\ stage = "arrive" /\ complete = FALSE /\ reply = "none"

---------------------------------------------------------------------------
(* The handlers *)

\* Neither mg_enabled nor a file type of the directory.
Decline ==
    /\ stage = "arrive" /\ script \in Foreign
    /\ Reply("declined") /\ stage' = "over"
    /\ UNCHANGED <<request, complete>>

\* mg_obtain_request_memory fails: 500, from each of them.
NoMemory ==
    /\ stage = "arrive" /\ script \notin Foreign /\ "memory" \in Faults
    /\ Reply("error") /\ stage' = "over"
    /\ UNCHANGED <<request, complete>>

Accept ==
    /\ stage = "arrive" /\ script \notin Foreign
    /\ stage' = "head"
    /\ UNCHANGED <<request, complete, reply>>

\* mg_web returns to the adapter: to the end of the request, or, whatever it
\* returns, to the content of the request.
BackToAdapter == IF evented THEN "await" ELSE "over"

\* mg_web: nothing is configured for the script.
Unconfigured ==
    /\ stage = "head" /\ unconfigured
    /\ Reply("error") /\ stage' = BackToAdapter
    /\ UNCHANGED <<request, complete>>

\* The page of the administrator, which NGINX has later.
AdminPage ==
    /\ stage = "head" /\ administrative /\ ~evented
    /\ Reply("admin") /\ stage' = "over"
    /\ UNCHANGED <<request, complete>>

\* The request is put into its buffer: on to the content.
Prepared ==
    /\ stage = "head" /\ ~unconfigured /\ (administrative => evented)
    /\ stage' = IF evented THEN "await" ELSE "serve"
    /\ UNCHANGED <<request, complete, reply>>

---------------------------------------------------------------------------
(* NGINX: ngx_http_read_client_request_body and the callback *)

\* mg_payload_handler, which serves what mg_web has prepared.  Where mg_web has
\* found no path, or no server, it reads through a null pointer.
PayloadHandler ==
    IF unconfigured \/ (administrative /\ body.how # "none") THEN stage' = "crashed" /\ UNCHANGED reply
    ELSE IF administrative THEN Reply("admin") /\ stage' = "over"
    ELSE stage' = "serve" /\ UNCHANGED reply

\* The content is there, or has been read before.
ContentThere ==
    /\ stage = "await" /\ ~gone
    /\ complete' = TRUE
    /\ PayloadHandler
    /\ UNCHANGED request

\* It is not: more_request_content.
ContentLater ==
    /\ stage = "await" /\ ~complete /\ body.len > 0
    /\ stage' = "more"
    /\ UNCHANGED <<request, complete, reply>>

\* The callback for the rest of it: the handler starts from the beginning.
ContentCompletes ==
    /\ stage = "more" /\ ~gone
    /\ complete' = TRUE
    /\ stage' = "arrive"
    /\ UNCHANGED <<request, reply>>

\* NGINX gives up a request whose client leaves while it reads.
ContentNever ==
    /\ stage \in {"await", "more"} /\ gone
    /\ stage' = "dropped"
    /\ UNCHANGED <<request, complete, reply>>

\* There is no such pool, no memory for the task, or no room in the queue: the
\* callback returns, and nobody finishes the request.
Strand ==
    /\ stage = "serve" /\ evented /\ "pool" \in Faults
    /\ stage' = "stranded"
    /\ UNCHANGED <<request, complete, reply>>

\* mg_web_process is through.  mg_execute passes the output on and finalizes the
\* request; Apache ends the bucket brigade and both give the memory back.
Serve(r) ==
    /\ stage = "serve"
    /\ Reply(r) /\ stage' = "over"
    /\ UNCHANGED <<request, complete>>

Arrival == Decline \/ NoMemory \/ Accept \/ Unconfigured \/ AdminPage \/ Prepared
Eventing == ContentThere \/ ContentLater \/ ContentCompletes \/ ContentNever
==============================================================================
