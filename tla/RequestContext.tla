--------------------------- MODULE RequestContext ---------------------------
(***************************************************************************)
(* The request id, from RequestContextMiddleware through the class-level   *)
(* dict of RequestContextVar to the bodies of errors.  The middleware and  *)
(* the exception handlers run as tasks of one event loop, the routes in    *)
(* worker threads; between its steps a request gives way to others.        *)
(*                                                                         *)
(* The ids that are passed to the loggers go nowhere: get_logger returns a *)
(* LoggerAdapter with an empty extra, which replaces the extra of a call.  *)
(* user_id, which is only logged, is left out with them.                   *)
(***************************************************************************)
EXTENDS FiniteSets

CONSTANTS
    Requests,
    HeaderIds,      \* values of X-Request-ID
    FreshIds,       \* values of uuid4, as many as requests
    None            \* no header, no id in a body, no key in the dict

VARIABLES
    request_id,     \* _local_data["request_id"]
    tasks           \* local state of each request

vars == <<request_id, tasks>>

Init ==
    /\ request_id = None
    /\ tasks = [r \in Requests |-> [pc |-> "new", id |-> None, body |-> None, header |-> None]]

At(r, phase) == tasks[r].pc = phase

Become(r, task) == tasks' = [tasks EXCEPT ![r] = task]

\* dispatch() up to call_next.  generate_request_id takes what it finds.
Dispatch(r, header) ==
    LET uuid == CHOOSE i \in FreshIds : \A q \in Requests : tasks[q].id # i
        id == IF header # None THEN header
              ELSE IF request_id # None THEN request_id ELSE uuid
    IN
    /\ At(r, "new")
    /\ request_id' = id
    /\ Become(r, [tasks[r] EXCEPT !.pc = "called", !.id = id])

\* The route answers; its bodies, those of its HTTPExceptions too, name no id.
Route(r) ==
    /\ At(r, "called")
    /\ Become(r, [tasks[r] EXCEPT !.pc = "answered"])
    /\ UNCHANGED request_id

\* Parameters or body are invalid: the handler, inside the middleware, reads
\* the dict for its 422.
Invalid(r) ==
    /\ At(r, "called")
    /\ Become(r, [tasks[r] EXCEPT !.pc = "answered", !.body = request_id])
    /\ UNCHANGED request_id

\* dispatch() after call_next: the local id becomes the response header.
Respond(r) ==
    /\ At(r, "answered")
    /\ Become(r, [tasks[r] EXCEPT !.pc = "done", !.header = tasks[r].id])
    /\ UNCHANGED request_id

\* A dependency raises, or an answer cannot be rendered.  dispatch() lets it pass,
Escape(r) ==
    /\ At(r, "called")
    /\ Become(r, [tasks[r] EXCEPT !.pc = "raised"])
    /\ UNCHANGED request_id

\* and global_exception_handler, outside of it, reads the dict; no header is set.
HandleException(r) ==
    /\ At(r, "raised")
    /\ Become(r, [tasks[r] EXCEPT !.pc = "done", !.body = request_id])
    /\ UNCHANGED request_id

Next ==
    \E r \in Requests :
        \/ \E header \in HeaderIds \cup {None} : Dispatch(r, header)
        \/ Route(r) \/ Invalid(r) \/ Respond(r)
        \/ Escape(r) \/ HandleException(r)

Spec == Init /\ [][Next]_vars
-----------------------------------------------------------------------------
\* The storage calls itself thread-local: the id an error's body names is the
\* one its request was given, which also is the header's.
ContextIsOwn ==
    \A r \in Requests : At(r, "done") /\ tasks[r].body # None => tasks[r].body = tasks[r].id
=============================================================================
