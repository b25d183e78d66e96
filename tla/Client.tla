-------------------------------- MODULE Client --------------------------------
(***************************************************************************)
(* One request of a client, from the builder's first call to the last byte  *)
(* of the response: Configure makes the handle that the agent is given, and *)
(* Response and Metrics are what a program does with what comes back.  How  *)
(* the agent serves the handle is in Agent and Handler.                     *)
(***************************************************************************)
EXTENDS Configure, Response, Metrics

clientVars == <<configureVars, responseVars, metricsVars>>

Init == ConfigureInit /\ ResponseInit /\ MetricsInit

(* invoke: the handle goes to the agent. *)
Submit ==
    /\ phase = "created"
    /\ phase' = "sent"
    /\ UNCHANGED <<budget, outcome, builderVars, clientConfig, requestConfig, handleVars, responseVars, metricsVars>>

(* The response future fails: no headers have come. *)
ExchangeFails(code) ==
    /\ phase = "sent"
    /\ Fail(KindOf(code))
    /\ UNCHANGED <<budget, builderVars, clientConfig, responseVars, metricsVars>>

HeadersCome(r) ==
    /\ phase = "sent" /\ Deliverable(r, http.method = "HEAD", http.decodes)
    /\ Respond(r, http.method = "HEAD", http.decompression)
    /\ phase' = "response"
    /\ http' = [metrics |-> http.metrics]
    /\ UNCHANGED <<budget, outcome, builderVars, clientConfig, requestConfig, position, easy, blobs, metricsVars>>

(* A program that asked for metrics may watch the transfer: then the model  *)
(* reads nothing of the body.                                               *)
Watch(secure) ==
    /\ phase = "response" /\ http.metrics /\ reader = None
    /\ reader' = "watch" /\ tls' = secure
    /\ UNCHANGED <<configureVars, reply, body, decoder, taken, answer, times, cells, stored, observer>>

Next ==
    \/ Configure /\ UNCHANGED <<responseVars, metricsVars>>
    \/ Submit
    \/ \E code \in {"COULDNT_RESOLVE_HOST", "OPERATION_TIMEDOUT"} : ExchangeFails(code)
    \/ \E r \in Reply : HeadersCome(r)
    \/ phase = "response" /\ reader # "watch" /\ Receive /\ UNCHANGED <<configureVars, metricsVars>>
    \/ \E secure \in BOOLEAN : Watch(secure)
    \/ reader = "watch" /\ Observe /\ UNCHANGED <<configureVars, responseVars>>

Spec == Init /\ [][Next]_clientVars

----------------------------------------------------------------------------
(* The documentation of danger_accept_invalid_certs and of its sibling for  *)
(* host names (tls/mod.rs) says that by default they are disabled and bad   *)
(* certificates are rejected: of a proxy as of an origin.                   *)
ProxyIsVerified ==
    phase = "method" /\ request["proxy_tls_config"] # None =>
        /\ Given(<<"proxy", "VERIFYPEER">>, ~request["proxy_tls_config"].acceptCerts)
        /\ Given(<<"proxy", "VERIFYHOST">>, ~request["proxy_tls_config"].acceptHosts)
=============================================================================
