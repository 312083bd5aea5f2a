--------------------------- MODULE RequestPipeline ---------------------------
(***************************************************************************)
(* One request to an authenticated route of the trust agent's web service  *)
(* (src/service/webservice.go): errorHandler(requiresPermission(handler)), *)
(* with getApplicationMeasurement (src/resource/measure.go) as the handler. *)
(* The JWT middleware has already put the caller's permissions, or none,   *)
(* into the request context.                                               *)
(*                                                                         *)
(* The http.ResponseWriter follows net/http: the first WriteHeader sends   *)
(* the status with the header map as it is then; later header changes and  *)
(* later WriteHeader calls do not reach the client; Write sends an         *)
(* implicit 200 first.  http.Error sets its headers, calls WriteHeader and *)
(* writes the message.  A request runs on one goroutine and shares no      *)
(* state with others, so one request is the whole model.                   *)
(***************************************************************************)
EXTENDS Naturals, Sequences

\* What GetUserPermissions and ValidatePermissionAndGetPermissionsContext
\* find: no permissions in the context, or a set lacking or holding the
\* route's permission.
Permissions == {"no_context", "denied", "granted"}

\* What requestHandler.GetApplicationMeasurement (outside src/) returns:
\* success, a *common.EndpointError with a 400 or 500 status, an error
\* whose text is "record not found", any other error, or a panic.
MeasureOutcomes == {"ok", "endpoint_400", "endpoint_500", "not_found",
                    "other", "panic"}

Requests ==
    [perm : Permissions, contentTypeXml : BOOLEAN, bodyRead : BOOLEAN,
     xmlValid : BOOLEAN, measure : MeasureOutcomes, marshalOk : BOOLEAN]

\* Values of the error an endpointHandler returns.
NoError == [kind |-> "nil"]
EndpointError(code) == [kind |-> "endpoint", status |-> code]
PlainError(notFound) == [kind |-> "plain", notFound |-> notFound]
PrivilegeErrorPtr(code) == [kind |-> "privilege_ptr", status |-> code]
Panic == [kind |-> "panic"]

VARIABLES
    req,        \* the request and what the calls it makes return
    pc,         \* "requiresPermission", "handler", "errorHandler", "done"
    err,        \* the error the wrapped handler returned
    header,     \* w.Header(): names of the headers set
    sent,       \* what reached the client: [status, headers]; status 0
                \* while nothing was sent
    writeHeaderCalls,   \* calls of WriteHeader, implicit ones included
    body        \* messages written to the body, in order

vars == <<req, pc, err, header, sent, writeHeaderCalls, body>>

-----------------------------------------------------------------------------
(* http.ResponseWriter *)

\* WriteHeader(code) with the header map h as it is at the call.
WriteHeader(h, code) ==
    /\ sent' = IF sent.status = 0 THEN [status |-> code, headers |-> h]
                                  ELSE sent
    /\ writeHeaderCalls' = writeHeaderCalls + 1

\* w.Write(msg) after an explicit WriteHeader in the same step.
WriteBody(msg) == body' = Append(body, msg)

\* http.Error(w, msg, code): Content-Type and X-Content-Type-Options are
\* set, Content-Length removed, then WriteHeader(code) and the message.
HttpError(msg, code) ==
    LET h == (header \ {"Content-Length"})
               \cup {"Content-Type", "X-Content-Type-Options"}
    IN /\ header' = h
       /\ WriteHeader(h, code)
       /\ WriteBody(msg)

-----------------------------------------------------------------------------
(* requiresPermission(eh, permissionNames) *)

\* A matching permission: the HSTS header is added, then eh(w, r) runs.
Authorized ==
    /\ header' = header \cup {"Strict-Transport-Security"}
    /\ pc' = "handler"
    /\ UNCHANGED <<err, sent, writeHeaderCalls, body>>

RequiresPermission ==
    /\ pc = "requiresPermission"
    /\ \/ \* GetUserPermissions fails: 500, then the HSTS header, then the
          \* message; the wrapped error is returned.
          /\ req.perm = "no_context"
          /\ WriteHeader(header, 500)
          /\ header' = header \cup {"Strict-Transport-Security"}
          /\ WriteBody("roles_unavailable")
          /\ err' = PlainError(FALSE)
          /\ pc' = "errorHandler"
       \/ \* No matching permission: 401 and a *privilegeError.
          /\ req.perm = "denied"
          /\ UNCHANGED <<header, body>>
          /\ WriteHeader(header, 401)
          /\ err' = PrivilegeErrorPtr(401)
          /\ pc' = "errorHandler"
       \/ req.perm = "granted" /\ Authorized
    /\ UNCHANGED req

-----------------------------------------------------------------------------
(* getApplicationMeasurement(requestHandler) *)

\* The error GetApplicationMeasurement returns, passed on unchanged.
MeasureError(m) ==
    CASE m = "endpoint_400" -> EndpointError(400)
      [] m = "endpoint_500" -> EndpointError(500)
      [] m = "not_found"    -> PlainError(TRUE)
      [] m = "other"        -> PlainError(FALSE)

\* The handler returns (or panics) at the first check that fails; on
\* success it writes 200 and the measurement XML and returns nil.
Returns(e) ==
    /\ err' = e
    /\ UNCHANGED <<header, sent, writeHeaderCalls, body>>

\* Mutant of MarshalFails: WriteHeader(StatusOK) moved ahead of xml.Marshal.
MarshalFailsAfterHeader ==
    /\ UNCHANGED <<header, body>>
    /\ WriteHeader(header, 200)
    /\ err' = EndpointError(500)

\* xml.Marshal of the measurement fails: a 500 EndpointError, nothing
\* written yet.
MarshalFails == Returns(EndpointError(500))

GetApplicationMeasurement ==
    /\ pc = "handler"
    /\ pc' = "errorHandler"
    /\ \/ ~req.contentTypeXml /\ Returns(EndpointError(400))
       \/ req.contentTypeXml /\ ~req.bodyRead /\ Returns(EndpointError(400))
       \/ req.contentTypeXml /\ req.bodyRead /\ ~req.xmlValid
            /\ Returns(EndpointError(400))
       \/ /\ req.contentTypeXml /\ req.bodyRead /\ req.xmlValid
          /\ \/ req.measure = "panic" /\ Returns(Panic)
             \/ req.measure \notin {"ok", "panic"}
                  /\ Returns(MeasureError(req.measure))
             \/ req.measure = "ok" /\ ~req.marshalOk /\ MarshalFails
             \/ /\ req.measure = "ok" /\ req.marshalOk
                /\ UNCHANGED header
                /\ WriteHeader(header, 200)
                /\ WriteBody("measurement")
                /\ err' = NoError
    /\ UNCHANGED req

-----------------------------------------------------------------------------
(* errorHandler(eh): the deferred recover, then the error's reply *)

\* The status of the type switch: *common.EndpointError and the value type
\* privilegeError carry their own; anything else, a *privilegeError
\* included, is 500.
SwitchStatus(e) ==
    CASE e.kind = "endpoint"  -> e.status
      [] e.kind = "privilege" -> e.status
      [] OTHER                -> 500

ErrorHandler ==
    /\ pc = "errorHandler"
    /\ pc' = "done"
    /\ \/ err.kind = "nil" /\ UNCHANGED <<header, sent, writeHeaderCalls, body>>
       \/ err.kind = "panic" /\ HttpError("unknown_error", 500)
       \/ err.kind = "plain" /\ err.notFound /\ HttpError("not_found", 404)
       \/ /\ err.kind \notin {"nil", "panic"}
          /\ ~(err.kind = "plain" /\ err.notFound)
          /\ HttpError("error_message", SwitchStatus(err))
    /\ UNCHANGED <<req, err>>

-----------------------------------------------------------------------------
Init ==
    /\ req \in Requests
    /\ pc = "requiresPermission"
    /\ err = NoError
    /\ header = {}
    /\ sent = [status |-> 0, headers |-> {}]
    /\ writeHeaderCalls = 0
    /\ body = <<>>

\* The request ends when errorHandler returns; no step follows.
Next == RequiresPermission \/ GetApplicationMeasurement \/ ErrorHandler

Spec == Init /\ [][Next]_vars

-----------------------------------------------------------------------------
(* Properties *)

TypeOK ==
    /\ req \in Requests
    /\ pc \in {"requiresPermission", "handler", "errorHandler", "done"}
    /\ sent.status \in {0, 200, 400, 401, 404, 500}
    /\ writeHeaderCalls \in 0..2

\* The status each request is meant to get, from the statuses the code
\* names: 500 when the roles cannot be read, 401 without the permission,
\* then the first failing step of getApplicationMeasurement (400 for the
\* content type, the body and the XML; the measurement's own error, 404
\* for "record not found"; 500 for a panic or a failed marshal), else 200.
IntendedStatus(r) ==
    CASE r.perm = "no_context"  -> 500
      [] r.perm = "denied"      -> 401
      [] ~r.contentTypeXml      -> 400
      [] ~r.bodyRead            -> 400
      [] ~r.xmlValid            -> 400
      [] r.measure = "endpoint_400" -> 400
      [] r.measure = "endpoint_500" -> 500
      [] r.measure = "not_found"    -> 404
      [] r.measure \in {"other", "panic"} -> 500
      [] ~r.marshalOk           -> 500
      [] OTHER                  -> 200

\* Every request ends with exactly the status intended for it, although
\* requiresPermission, getApplicationMeasurement and errorHandler each may
\* call WriteHeader and only the first call reaches the client.
ReplyStatusIsIntended ==
    pc = "done" => sent.status = IntendedStatus(req)

\* Nothing the three functions write to the response is lost: every
\* header set is among those sent with the status, and the status is
\* written once.  net/http drops a header set after WriteHeader (the HSTS
\* header requiresPermission adds after its 500) and a second WriteHeader
\* (errorHandler's reply to a request requiresPermission refused).
ResponseWrittenWhole ==
    pc = "done" => header \subseteq sent.headers /\ writeHeaderCalls <= 1
=============================================================================
