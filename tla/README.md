# A TLA+ model of isahc

isahc is an HTTP client built on libcurl's multi interface. This directory holds TLA+ modules
that model its own logic, TLC configurations that check them on small instances, and theorems
proved with TLAPS. libcurl, the operating system's poller and the channel, pipe and event crates
are not part of the repository: they appear only as the behaviour `src/` relies on, and are
marked `external` in the map of `PROJECT.json`.

Paths below are relative to the repository root.

## 1. Inventory

| component | source | state it keeps | operations | what makes it correct |
|---|---|---|---|---|
| Agent and its handle | `src/agent/mod.rs`, `src/task.rs` | message channel, slab of active requests, `close_requested`, the poller's notification, the join handle | `submit_request`, `send_message`, `try_join`, `Handle::drop`; `poll_messages`, `handle_message`, `begin_request`, `complete_request`, `poll`, `run`; the two wakers | no message is left behind while the agent sleeps, no wake-up of a paused transfer is lost, every response future settles exactly once and with its own transfer's result, a drop of the handle ends |
| Agent timer | `src/agent/timer.rs`, `AgentContext::poll` | one optional deadline | `start`, `stop`, `is_expired`, `get_remaining` | a timeout curl asked for is never dropped |
| Socket selector | `src/agent/selector.rs`, `AgentContext::poll`, the socket callback | registrations, sockets that failed to register, last events, tick; pending socket updates | `register`, `deregister`, `poll`, `events` | level-triggered service from a oneshot poller: a socket curl watches is armed whenever the agent sleeps |
| Request handler | `src/handler.rs` | response sender, shared result, status, version, headers, request body, pipe writer, wakers | `init`, `set_result`, `complete_response_future`, `build_response`; curl's callbacks `header`, `read`, `seek`, `write`, `progress`, `debug` | the future completes once, with the headers of the last response only; a truncated body is never reported as a clean end of file |
| Response body reader | `src/handler.rs`, `src/client.rs` | pipe reader, shared result, a clone of the client | `poll_read`, drop | end of file only after a successful transfer; the agent outlives the body |
| Trailer | `src/trailer.rs` | headers set once, an event | `wait`, `wait_timeout`, `wait_async`, `try_get`; `get_mut`, `flush`, drop | no waiter sleeps through the notification; trailers are there once the body has been read |
| Client send path | `src/client.rs` | configuration, interceptors, agent handle | `send`, `send_async`, `invoke`, `create_easy_handle`, `build` | the response is returned when its headers arrive; configuration reaches curl |
| Sync body upload | `src/body/sync.rs`, `HttpClient::send` | reader, pipe writer | `into_async`, `Writer::write` | upload and wait make progress together; a failed reader never ends in a complete request |
| Bodies | `src/body/mod.rs`, `src/body/sync.rs` | empty, buffer with a cursor, or reader | `reset`, `len`, `poll_read`, `into_sync` | only repeatable bodies are replayed, from their start |
| Interceptors | `src/interceptor/` | the chain | `Context::send` | redirect outermost, then cookies, then default headers, then curl |
| Redirects | `src/redirect.rs`, `src/request.rs` | hop count, effective URI, the request under construction | `intercept`, `get_redirect_location`, `resolve`, `create_referer`, `is_same_authority`, `to_builder` | at most limit + 1 requests; the body of each hop is whole; the URI reported is the one that answered |
| Default headers | `src/default_headers.rs` | header map | `intercept` | a default never overrides a header of the request |
| Cookies | `src/cookies/jar.rs`, `interceptor.rs`, `cookie.rs` | a set of cookies behind a lock | `set`, `get_for_uri`, `get_by_name`, `clear` | one cookie per domain, path and name; an expired one is never sent; concurrent responses do not lose updates |
| Public suffix list | `src/cookies/psl.rs` | cached list and two time stamps behind a lock, `IS_REFRESHING` | `is_public_suffix`, `refresh` | one refresh at a time, none while the list is fresh |
| Configuration | `src/config/`, `src/auth.rs`, `src/net/` | `RequestConfig`, `ClientConfig` | the `Configurable` setters, `merge`, `set_opt` | a request's value beats the client's, which beats the default, though options share names in curl and are set in an order |
| Errors | `src/error.rs` | kind, source, addresses | conversions | an error keeps its kind through `io::Error` and back |
| Metrics | `src/metrics.rs` | atomic cells | `update_from_progress`, getters | a duration computed from two cells while they are written is not negative |
| Header parsing | `src/parsing.rs`, `src/headers.rs` | none | `parse_status_line`, `parse_header`, `header_to_curl_string` | a line is classified once |
| Response methods and text decoding | `src/response.rs`, `src/text.rs` | bytes read, a decoder with what is left of a character | `copy_to`, `bytes`, `consume`, `text` | a truncated body is an error; where chunks begin and end is not seen in the text |
| TLS | `src/tls/` | `TlsConfig`, identities, trust stores | builders, `set_opt`, `set_opt_proxy` | the origin and the proxy get what was asked for each; curl's blobs outlive the transfer |
| Info | `src/info.rs` | none | version strings | |

### How the parts interact

A caller's `HttpClient::send_async` runs the interceptors (redirect, cookies, default headers) and then
`invoke`, which builds an easy handle owning a `RequestHandler`, pushes `Message::Execute` on the
agent's unbounded channel and notifies the agent's poller. The agent thread pops the message, stores the
handle in a slab whose key becomes the request's token, and gives it two wakers that push `UnpauseRead(key)` or
`UnpauseWrite(key)`. curl calls the handler back on the agent thread; a callback whose pipe is not ready
registers its waker and pauses the transfer. The handler completes the caller's future through a
one-place channel, streams the body through a pipe, and on completion publishes the result, the trailer and,
if it is still pending, the future. The last clone of the client to go (response bodies hold one)
drops the handle, which pushes `Message::Close`, notifies and joins the thread.

### Behaviours that are hard

* the wake-up protocol: messages are pushed and the poller notified in two steps, while the agent checks the channel
  and goes to sleep in two steps;
* keys of the slab are reused, while wakers keep the key they were made with;
* the agent may stop with an error (`?` in `run`) with messages still in the channel;
* the future, the body pipe, the shared result and the trailer are four separate cells that a reader on another thread
  sees change one at a time;
* the sync `send` waits for both the response and the upload;
* redirects replay a request whose body has been partly consumed;
* oneshot poller events, descriptors that are closed and reused between two turns of the loop;
* a list refresh that holds a write lock during a network request.

## 2. Plan

The modules were written in this order, the most important behaviour first.

| step | modules | models | composition |
|---|---|---|---|
| 1 | `Agent`, `AgentContract` | the agent thread, its handle, callers, wakers; what callers are promised | `Agent` implements `AgentContract` (`KeepsContract`) |
| 2 | `AgentInvariant`, `AgentProofs` | the inductive invariant of the agent and its theorems | extend `Agent` |
| 3 | `Trailer`, `Handler` | the callbacks of one request against the reader of its response | `Handler` extends `Trailer` |
| 4 | `Selector`, `EventLoop` | the inside of `AgentContext::poll`: oneshot registrations, socket updates, the timer | `EventLoop` extends `Selector`; together they are the inside of the `Poll` steps of `Agent` |
| 5 | `SyncSend` | the synchronous send: upload and wait on one thread, a reader that fails | on its own; the handler of one request is reduced to its upload and its answer |
| 6 | `Redirect`, `RedirectProofs` | the interceptor chain: redirects, request bodies and their reset, cookies, default headers; its theorems | on its own; the handler's exchange is one step of it |
| 7 | `PslCache` | the cached public suffix list, its queries and its refreshing thread | on its own |
| 8 | `Cookie`, `CookieStore`, `CookieJar` | cookies, what a jar promises, the jar behind its lock with concurrent setters | `CookieJar` extends `PslCache` and `Cookie` and implements `CookieStore` (`KeepsStore`) |
| 9 | `Errors`, `Options`, `Configure` | kinds of errors; what a configuration value gives curl; builder, merge and easy handle | `Configure` extends `Options`, which extends `Errors` |
| 10 | `Response`, `Metrics`, `Client` | the readers of a response, the times of a transfer, one request from end to end | `Client` composes `Configure`, `Response` and `Metrics` |
| 11 | `HandlerProofs`, `EventLoopProofs`, `SyncSendProofs`, `CookieJarProofs` | theorems of steps 3, 4, 5, 7 and 8 | each extends its component |
| 12 | `ConfigureProofs`, `ResponseProofs` | theorems of steps 9 and 10, over the steps of `Client` | `ConfigureProofs` extends `Client`, `ResponseProofs` extends `ConfigureProofs` |

Two abstract specifications say what a component promises, and both implementations are checked and proved:
`AgentContract` for the agent and `CookieStore` for the jar. A level-triggered watch list for `Selector` would say no
more than `WatchedIsArmed` and `NothingElseIsArmed` do together.

What is left is in section 12.

## 3. The agent: `Agent.tla`

### State and actions

| variable | in the code |
|---|---|
| `queue` | the unbounded channel `message_tx`/`message_rx`; it keeps its content when the receiver is dropped |
| `notified` | the poller's sticky notification (`Poller::notify`), consumed by the next wait |
| `caller[r]` | the thread that submits request `r`, then awaits its future and reads its body |
| `wakerPc[r, d]` | a thread inside one of the two wakers of `begin_request` |
| `handlePc` | the thread in `AgentBuilder::spawn`, later in `Handle::drop` |
| `agentPc`, `exit` | where the agent thread is in `run`, and what `run` returned |
| `requests` | the slab; `wakerKey[r]` is the key that the wakers of `r` captured |
| `paused`, `outcome` | curl: paused directions, and how the transfer finished |
| `armed` | a pipe or body that returned `Pending` and holds the waker |
| `batch` | `multi_messages`, the completion messages of one turn |
| `future`, `result` | the response channel and `Shared.result` of the handler |

`send_message` and both wakers push first and notify second, so each is two actions (`SubmitPush`/`SubmitWake`,
`FirePush`/`FireNotify`, `DropPush`/`DropNotify`). The agent's own loop is split where another thread can be
seen: every received message is one action, the end of `poll_messages` one, the return of the selector one, every callback
one, every completion one. Every `?` of `run` has an action that takes it (`BeginFails`, `PollFails`, `CompleteFails`,
`StartFails`), switched by the constant `MayFail`. The slab hands out any vacant key, which covers the order in which
the crate reuses them. A waker may fire whenever it likes: it is cloned freely, and a body may call it after the transfer is over.

Left to one step: the inside of `poll` is reduced to the reasons for which the selector returns; `EventLoop` has the inside. A socket registration that fails, a curl error and a poller error are all `PollFails`.

### What the callers are promised: `AgentContract.tla`

A request is accepted, then answered once (`response` or `error`), cancelled, or lost by a failing agent; an agent stops
cleanly only when no accepted request is unanswered. `Agent` maps its callers, futures and exit to that in
`PhaseSeen` and `AgentSeen`.

### Runs

| run | instance | shows |
|---|---|---|
| `agent_safety` | 2 requests, 2 keys, direction `write`, failures on, symmetry | `NoStrandedMessage`, `NoLostUnpause`, `OwnResult`, `CleanShutdown`, `KeepsContract` |
| `agent_live` | 1 request, 1 key, both directions, no failures | `FiredWakerResumes`, `DropEnds`, `MessagesAreHandled` |
| `agent_failure` | as `agent_safety` | a violation, see section 11 |

Two requests with two keys are enough for a key to be reused, for a stale waker of the first request to reach the second,
and for a batch to hold two completions. One request in both directions is enough for a read and a write of the same
transfer to be paused and resumed independently, and a request that has gone still has wakers that push. `MaxQueue`
bounds only wakers that nobody waits for: without it a
spurious waker could push for ever. Wakers that are armed, callers and the handle push without a bound. Requests are symmetric,
and so are keys (no liveness property is checked under symmetry). Deadlock is checked: the only state without a
further step of its own is `Gone`.

### Fairness

`ThreadFairness` assumes that a thread with something to do runs: the agent thread outside the selector
and the callbacks, a thread between its push and its notification, and the selector when it has been notified. Not
assumed: that the server answers, that a body makes progress, or that a caller reads, which the code cannot guarantee; nor that
the timeout of one second passes, which it does in the code. So `DropEnds` and `FiredWakerResumes` hold because of
notifications alone: `SelectTimeout` may happen, and need not.

## 4. The request handler: `Handler.tla` and `Trailer.tla`

`Handler` follows one `RequestHandler` from `queued` to `gone`. The agent thread's changes to the four cells a caller can
see (the future's channel, the pipe, `Shared.result`, the trailer) are separate actions in the order of `set_result`
and of the destructors (fields are dropped in declaration order: sender, pipe writer, trailer writer). Header lines are
members of `0..Responses`: a line is known by the response it came with, 0 is a trailer field. The pipe and
curl's callback discipline are external: `InCallback`, `Reads`, `TransferSucceeds` and `Abort` say when curl calls back, asks for the
upload, may succeed, and gives up.

`Trailer` is the listener protocol of `trailer.rs`: look, listen, look again, block; publish, then notify. `event-listener`
wakes those who listen at that moment and nobody later. `wait` and `wait_async` are one kind of waiter, `wait_timeout` another.

| run | instance | shows |
|---|---|---|
| `handler` | 2 responses, 2 body chunks through a pipe of 1, 1 upload chunk, one waiter of each kind | `HeadersOfFinalResponse`, `NoSilentTruncation`, `TrailerReadyAtEof`, `ErrorIsTheFirst`, `SettledOnce`, `EverybodyIsReleased` |
| `handler_upload` | the same without trailer waiters | a violation, see section 11 |

Two responses give an interim or redirected one before the final one; two chunks through a pipe of one make the
write callback pause and be resumed; one upload chunk distinguishes a whole body from a missing one. The state space has no
further bound: every counter of it is one of these constants. `Over` is the only state that may stop.

`TrailerReadyAtEof` says what the code keeps of the guarantee at `src/trailer.rs:15`: the trailer is published at a clean end of file, and
complete if the body was not empty; trailer fields that follow an empty body are among the response's headers instead. The guarantee as
it is written has no such exception (section 11).

Fairness (`LiveSpec`): the agent thread finishes a callback or a destructor it is in, a transfer whose callback asked curl to abort ends,
and readers and waiters run. The server need not do anything.

## 5. The event loop: `EventLoop.tla` and `Selector.tla`

`Selector` is `selector.rs`; `EventLoop` extends it with `AgentContext::poll`, curl's socket and timer callbacks and
`timer.rs`. One turn of `poll` is the path of `pc`: `BeginWait` (clock, timeout, re-arming), the wait,
`SocketEvents` and one `Action` per event, `CheckTimer`, one `Apply` per socket update, `TurnEnds`. Outside
`poll` (`pc = "work"`) the agent adds, resumes and completes transfers.

| variable | in the code |
|---|---|
| `sockets`, `bad`, `events` | the fields of `Selector` |
| `fresh` | the sockets whose `Registration.tick` is the current one: comparing ticks for equality is all the code does with them |
| `poller`, `open` | external: registrations of the poller, open descriptors |
| `updates`, `timer`, `now` | `socket_updates`, `Timer.timeout`, the instant `poll` reads before it waits |
| `wanted`, `due` | external: what curl last asked for |

The poller behaves as epoll does: oneshot, a descriptor's registration goes away with it, adding a known descriptor or modifying an
unknown one fails. curl may watch, open and change its timeout in any call of its handle, and closes the descriptors it no longer watches
while it drives transfers, that is in `action` and `timeout`. The last restriction matters: `Selector::poll` returns an error if a socket that
fired cannot be armed again, and a descriptor closed between `Apply` and the next wait, with its removal still among the updates,
would make it do so. `RearmingIsSafe` holds under the restriction and says that the code needs it.

| run | instance | shows |
|---|---|---|
| `event_loop` | 1 descriptor, 2 interests of which one contains the other, a clock of 5 instants, `WAIT_TIMEOUT` of 2 | `WatchedIsArmed`, `NothingElseIsArmed`, `RearmingIsSafe`, `TimerIsCurls`, `TimeoutIsServed`, `WatchIsHonoured` |

Descriptors meet in the code only in the order of their events and updates, which the actions leave open: one is
enough to find what goes wrong with a descriptor, and the four safety properties are proved for any number of them. The clock lets a
timer be set before, during and after a wait, expire while the agent waits for something else, and lie beyond `WAIT_TIMEOUT`.
`MaxClock` bounds the deadlines; a wait that would outlast it ends with it.

Fairness (`LiveSpec`): the agent thread runs, time passes, a wait ends when its time is up. No event, notification or
call of curl is assumed, so a refused socket is retried because of `WAIT_TIMEOUT` alone. That includes the step from `pc = "work"` to the
next turn, so the two liveness properties are about an agent that has a request: without one it may block in `recv` instead, and curl then
has nothing to watch and no timeout to serve. `Failed` is the only state
that stops: a `?` of `poll` ends the agent, as in `Agent`.

## 6. The synchronous send: `SyncSend.tla`

`HttpClient::send` with a reader as body runs two futures on the calling thread: the response's, polled first, and `Writer::write`, which
reads (blocking) and writes into a bounded pipe. The variable `main` is where the thread is in `try_zip` and in
`Writer::write`; `kept` is the response `try_zip` holds until the copy is done. The agent thread takes chunks out of the pipe, pauses on an empty one,
answers, fails, and drops the handler; `body` says who owns the reading end: the handler, the response it built, or nobody. `Answer` waits for the end of
the upload unless `EarlyAnswer` is set. That a paused upload is resumed is the subject of `Agent`; here it happens with the write.

| run | instance | shows |
|---|---|---|
| `sync_send` | 4 chunks, a pipe of 2, an answer after the upload | `UploadIsWhole`, `SendReturns` |
| `sync_send_early` | the same, but the server may answer at any time | `AnswerIsReturned` violated, see section 11 |

The body is longer than the pipe by two chunks, so that the writer waits, is woken, and waits again; a body that fits into the pipe
meets none of it. Nothing else is bounded. The call returns, so the runs do not check for deadlock: `SendReturns` does, which says that
the upload ends or is answered, and that an answer or an error is returned (`AnswerIsReturned`).

Fairness: the calling thread runs, curl sends what it can read, the agent cleans up, and a reader that is interrupted is not interrupted for
ever (strong fairness of its other outcomes). The server is never assumed to answer.

## 7. The chain of interceptors: `Redirect.tla`

One call, from the caller's request to what the call returns. `pc` is the interceptor whose turn it is: `PreserveRequest`
(`to_builder`), `AddCookies`, `AddDefaultHeaders`, `Invoke` (the exchange), `StoreCookies`, and the decision of the redirect interceptor:
`Return`, `TooManyRedirects`, `BodyNotRewindable` or `Follow`, in the order of the code's checks. The interceptors of a client have this order
because the redirect interceptor is in the list from the start and `build` appends the other two.

| variable | in the code |
|---|---|
| `call` | the caller's request with its policy and `auto_referer`, after the merge with the client's configuration |
| `request`, `builder` | the request that travels down the chain, and the clone the next one is built from |
| `effectiveUri`, `redirectCount`, `response` | the locals of `RedirectInterceptor::intercept` |
| `jar` | the cookie jar, each cookie with the host it is kept for and the host that set it |
| `wire` | history: each request as it was sent, with the status of its answer |

A URI is a scheme and a host (the port belongs to the host): paths and queries are not compared by anything modelled here, so resolving a
`Location` is a choice of a URI or of none. A body is its kind and whether some of it has been read; an exchange may read any part of it. A
header is known by who set it, and there are two names, one of which a change of authority removes. The authentication of a request is in two more
places: its `RequestConfig` (`config`, reduced to whether it has authentication and credentials), which `to_builder` clones, and an `Authentication` among
its extensions (`authentication`), which `to_builder` leaves behind and a change of authority removes. Nothing in the repository puts the latter there: the
setters write to the configuration, and `config` stays what it was on every hop, another authority or not. `RequestsAreDerived` says so, against the
comment of those lines (section 11). User interceptors are left out; so is the failure to build the next request, whose parts all come from valid ones.

| run | instance | shows |
|---|---|---|
| `redirect` | a POST with a body, a sensitive header, credentials in the configuration and an `Authentication` extension, 2 hosts, 2 schemes, a limit of 1, a default limit of 2 | `LimitRespected`, `BodyIsWhole`, `RequestsAreDerived`, `CookiesAreOwn`, `AnswerIsTheLast` |

Three requests in a row are enough to leave an authority and come back, to follow a 307 after a 303, and to reach each limit. Other
calls change the jar between any two steps. `DefaultLimit` stands for 1024; the theorems of section 10 hold for any limit.

## 8. Cookies: `Cookie.tla`, `CookieStore.tla`, `PslCache.tla`, `CookieJar.tla`

Several threads set cookies in one jar: `CookieInterceptor` with the headers of a response, or the user with cookies of
his own. A cookie that names a domain is first judged by the public suffix list, behind a lock of its own that a background thread
takes for as long as it asks the server.

| variable | in the code |
|---|---|
| `jar` | the set behind `CookieJar`'s lock, each cookie with its context (`CookieWithContext`) |
| `job[t]` | the call of `CookieJar::set` that thread `t` is in |
| `now` | the time that `Max-Age` and `Expires` are compared with |
| `query[t]`, `answer[t]` | where `is_public_suffix` is in that call, and the edition of the list that answered |
| `list`, `age` | `ListCache`: the list, and what `needs_refreshed` makes of `last_refreshed` |
| `refreshing`, `spawned` | `IS_REFRESHING`, and the refresh threads that have not got the lock yet |
| `writer`, `poisoned` | the `RwLock` of the cache: held for writing, and poisoned |
| `published` | external: the server's edition |
| `attempts`, `served`, `floor` | history, for the properties |

A domain is the sequence of its labels, the top-level one first, and a path that of its segments, so that "is below" is "is a prefix"; upper and
lower case are kept apart, since some functions of `jar.rs` compare with it and some without. A `Set-Cookie` header is its pair and
its attributes in order, with what `Cookie::parse` makes of repeated and unreadable ones. What a list calls a public suffix is a
constant for each edition. A query takes the read lock, checks the age and the flag, and answers from the list in separate
steps; the list that is compiled in is used after the guard is dropped. A refresh may succeed, be told that nothing changed, fail or panic.
`Insert` is the replacement and the `retain` under one write lock, as in the code.

| run | instance | shows |
|---|---|---|
| `cookies` | 2 threads, 2 editions of the list, a clock of 2 instants, 4 headers and 3 built cookies for hosts above, below and beside each other | `LookupsAreIsolated`, `OneRefreshPerTtl`, `KeepsStore`, `SetsAreAllowed`, `SetsEnd` |

Two threads are enough for both to find the list stale, for a set to run while another holds the read lock, and for two cookies of one
name to be replaced in either order. One new edition lets the list be replaced in the middle of a set, and makes a site into a suffix that
cookies were set for before. One tick lets a cookie expire in the jar, and a `Max-Age` beat an `Expires`. The seven
cookies cover a host-only one, a domain in another case, a top-level domain, a secure one, a relative URI, an IP address
and an illegal header.

`OneRefreshPerTtl` bounds the refreshes from above, and its part `FlagMeansRefresh` from below: `IS_REFRESHING` is set while and only while a refresh has been
spawned or holds the lock, so a refresh that has ended, whichever way, leaves the next stale query free to start another. The one exception is
a panic, which leaves the flag set and the lock poisoned: then no refresh follows, and every later query panics.

Fairness: each thread runs (strong fairness of its next step, because the lock comes and goes), and so does the refresh thread: a server
that is asked for the list answers or fails. `psl.rs` sets no timeout of its own, so this is an assumption about the server, and
`SetsEnd` depends on it: while the refresh waits, no query is answered.

## 9. One request of a client: `Client.tla` and its parts

| module | models | variables |
|---|---|---|
| `Errors` | the kind each error of curl gets, and `io::Error` there and back | none |
| `Options` | what each configuration value gives curl: every `SetOpt` and `SetOptProxy` | none; an option is a side, `origin` or `proxy`, and a name |
| `Configure` | the builder and `build`, a request's own configuration, the merge, the options in the order of `set_opt`, the method and the framing of the body | `phase`; `client`, `closing`, `headers`, `error`, `interceptors` (the builder); `request`, `own` (before and after the merge); `position`, `easy`, `blobs`, `http` (the handle) |
| `Response` | the body that `invoke` makes, `copy_to`, `bytes`, `consume` and `text` chunk by chunk, the decoder | `reply`, `body`, `reader`, `decoder`, `taken`, `answer` |
| `Metrics` | cells stored one at a time by the agent's thread, durations computed from two loads by another | `times` (curl), `cells`, `stored`, `observer` |

`phase` goes from `building` over `built`, `request`, `options`, `method` and `created` to `sent`, and from there to `response` or `failed`.
Every option is given to curl by a step of its own (`SetOption`), which may be refused by the code (an engine that cannot,
a path that is not UTF-8) or by curl. `easy` maps an option to what was given last: several fields share options, and their
order decides. The model holds one request and forgets what is not read again when a phase ends; between `sent` and
`response` the agent and the handler work, whose modules are sections 3 to 6.

A byte is one of three, enough for a character of two bytes that may be cut by a chunk, and for bytes that are none.
`Metrics` describes one connection with its stages in order.

| run | instance | shows |
|---|---|---|
| `client` | 2 calls that configure the client or the request, 5 methods, 4 bodies, 3 headers of which one is refused, 5 TLS configurations, rustls with its platform verifier, chunks of 2, a clock of 2 | `BuildRefusesBadHeaders`, `OptionsAreConfigured`, `BlobsAreKept`, `RequestIsFramed`, `AnswerIsWhole`, `LengthIsRead`, `ErrorKeepsKind`, `DurationsAreNotNegative` |
| `client_proxy` | the same with OpenSSL | `ProxyIsVerified` violated, see section 11 |

Two calls are enough to set a field twice, to set a field of the client and the same one of the request, and to set any two
fields whose options meet: credentials and a negotiation, the identities of origin and proxy. Two ticks of curl's clock
order two stages in each way, and every duration is a difference of two. The request ends, so the runs do not check for deadlock.

`OptionsAreConfigured` is written apart from `Options`, one named part for each group of fields, and says for every option that a configuration may set what
its value is in the end, or that it has none:

* `PlainOptions`: the fields that are handed on as they are (`Plain`);
* `HttpOptions`: HTTP version, accepted encodings, the wait for `100 Continue`;
* `NetworkOptions`: the interface, the dialer (of `CONNECT_TO` and the socket's path at most one is in force), the proxy, the DNS cache, and whether
  connections may be reused;
* `AuthOptions`: authentication and credentials, of the origin and of the proxy; a negotiation without credentials has the empty name;
* `TlsOptions`, on both sides: ciphers, flags, versions, the trust store (a file, a blob, or paths that are unset), the issuer, the identity with its
  key and password, and for the origin whether certificates and host names are verified.

Three things are left out of it. `NOSIGNAL` is set always, by no field. Whether a proxy is verified is the opposite of what is asked, which is
`ProxyIsVerified`. And an identity that has both a password of its own and a key with one would have to choose, but no constructor of `Identity` makes it.
The five TLS configurations of the run have each kind of trust store but the native ones (the default configuration has that, which with rustls and curl 8.13.0 or later is
curl's `NATIVE_CA`; `NativeStore` has the other engines), a refused maximum version, an odd path, an issuer, both danger settings, and
identities from a blob with a password and from a file with a key.

`BlobsAreKept` ends with `CreateEasyHandle`: that the handler, which owns the blobs, lives as long as curl's handle is Rust's ownership, not modelled.

## 10. What is proved

The agent's theorems hold for any sets of requests and keys, any `MaxQueue`, with and without failures, under the named assumptions of
`Agent.tla`: `None` is neither a key nor a request, directions are `read` and `write`, `MaxQueue` is a natural number.
Finiteness is not needed, nor that there are as many keys as requests.

| theorem | module | states |
|---|---|---|
| `TypeCorrect` | `AgentProofs` | `Spec => []TypeOK` |
| `NothingStranded` | `AgentProofs` | `Spec => []NoStrandedMessage` |
| `Invariant` | `AgentProofs` | `Spec => []IInv` |
| `NoWakeUpIsLost` | `AgentProofs` | `Spec => []NoLostUnpause` |
| `ResultsAreOwn` | `AgentProofs` | `Spec => []OwnResult` |
| `ClosingIsClean` | `AgentProofs` | `Spec => []CleanShutdown` |
| `ContractKept` | `AgentProofs` | `Spec => KeepsContract` |
| `TypeCorrect` | `RedirectProofs` | `Spec => []TypeOK` |
| `LimitHolds` | `RedirectProofs` | `Spec => []LimitRespected` |
| `BodiesAreWhole` | `RedirectProofs` | `Spec => []BodyIsWhole` |
| `CookiesStayHome` | `RedirectProofs` | `Spec => []CookiesAreOwn` |
| `AnswersAreLast` | `RedirectProofs` | `Spec => []AnswerIsTheLast` |
| `HopsAreDerived` | `RedirectProofs` | `Spec => []RequestsAreDerived` |
| `TypeCorrect`, `Invariant` | `HandlerProofs` | `Spec => []TypeOK`, `Spec => []IInv` |
| `FinalHeaders` | `HandlerProofs` | `Spec => []HeadersOfFinalResponse` |
| `NeverTruncated` | `HandlerProofs` | `Spec => []NoSilentTruncation` |
| `TrailerIsReady` | `HandlerProofs` | `Spec => []TrailerReadyAtEof` |
| `FirstErrorWins` | `HandlerProofs` | `Spec => []ErrorIsTheFirst` |
| `Settled` | `HandlerProofs` | `Spec => SettledOnce` |
| `TypeCorrect`, `Invariant` | `EventLoopProofs` | `Spec => []TypeOK`, `Spec => []Inv` |
| `TimerAgrees` | `EventLoopProofs` | `Spec => []TimerIsCurls` |
| `NothingForgotten` | `EventLoopProofs` | `Spec => []NothingElseIsArmed` |
| `RearmingSucceeds` | `EventLoopProofs` | `Spec => []RearmingIsSafe` |
| `WatchesAreArmed` | `EventLoopProofs` | `Spec => []WatchedIsArmed` |
| `TypeCorrect`, `Invariant` | `SyncSendProofs` | `Spec => []TypeOK`, `Spec => []IInv` |
| `UploadsAreWhole` | `SyncSendProofs` | `Spec => []UploadIsWhole` |
| `TypeCorrect`, `Invariant` | `CookieJarProofs` | `Spec => []TypeOK`, `Spec => []IInv` |
| `RefreshedOnce` | `CookieJarProofs` | `Spec => []OneRefreshPerTtl` |
| `JarIsStore` | `CookieJarProofs` | `Spec => KeepsStore` |
| `SetsStayAllowed` | `CookieJarProofs` | `Spec => SetsAreAllowed` |
| `LookupsStayIsolated` | `CookieJarProofs` | `Spec => []LookupsAreIsolated` |
| `HeadersAreGood` | `ConfigureProofs` | `Spec => []BuildRefusesBadHeaders` |
| `Configured` | `ConfigureProofs` | `Spec => []OptionsAreConfigured` |
| `BlobsOutlive` | `ConfigureProofs` | `Spec => []BlobsAreKept` |
| `RequestsAreFramed` | `ConfigureProofs` | `Spec => []RequestIsFramed` |
| `AnswersAreWhole` | `ResponseProofs` | `Spec => []AnswerIsWhole` |
| `LengthsAreRead` | `ResponseProofs` | `Spec => []LengthIsRead` |
| `ErrorsKeepKind` | `ResponseProofs` | `Spec => []ErrorKeepsKind` |
| `DurationsAreTaken` | `ResponseProofs` | `Spec => []DurationsAreNotNegative` |

None of the safety properties but `NoStrandedMessage` is inductive. `NoLostUnpause` is about the key a request runs
under, and a new request takes over a key that stale wakers still carry, so `IInv` (`AgentInvariant.tla`) says that
a request runs under the one key its wakers captured (`KeysMatch`), that a request in the channel or not yet submitted is untouched
(`QueuedIsUntouched`, `IdleIsUntouched`), that it is in the channel once (`QueuedOnce`), and that a request without wakers is not paused and has no
outcome (`NeverRan`). `OwnResult` needs that a batch carries the outcome of the transfer under each token and
exists only while it is worked off (`BatchInv`). `CleanShutdown` needs that `Close` is the last word: it is pushed when
every caller is done, and no `Execute` follows it (`CloseInv`), and that `exit` tells how the agent got there (`ExitInv`). Each
part has a `Step...` lemma with one case for each kind of action; `StepIInv` combines them.

`ContractKept` uses the same invariant: `StepRefines` maps every action to one of the contract or to a stutter. The steps
that settle a future share `FutureSettles`; `ClearRefines` and `DropReceiverRefines` are the two places where `CloseInv`
decides between a clean stop and a failing one.

The theorems of `RedirectProofs` hold for any hosts, limits and default headers, and any number of hops, provided `None` is neither a URI nor a
response. Their invariant ties the length of the wire to the count of redirects (`CountInv`), says where the caller's body is (`BodyInv`),
that the effective URI is the request's (`UriInv`), and that jar cookies are in the request but not in the preserved one (`CookieInv`).
`RequestsAreDerived` speaks of the whole past, so `DerivedInv` says the same of the request under way and of the preserved one: their
method, headers, configuration and extension are what the requests on the wire leave to one for their URI. `InvokeDerived` moves the request into that past,
`FollowDerived` adds the answer to it.

The theorems of `HandlerProofs` hold for any number of responses, chunks and waiters and any size of the pipe. None of the properties is inductive:
`Control` says what the agent thread has settled by the place it is in (a verdict is reached once, the
result follows it, the sender goes last), `Answered` that the sender is there as long as there is no reply, `Lines` which lines are
in the headers, the trailer and the reply, according to which part of which response came last, `Flow` that what the caller has read
and what is in the pipe are the chunks in order, and `Reading` that a caller who sees the end sees a pipe nobody writes to. `NeverTruncated` needs all of
them: the verdict `ok` implies that everything offered was delivered. `TrailerIsReady` has the exception of the property: `Lines` puts trailer
fields after an empty body into the reply.

The theorems of `EventLoopProofs` hold for any sockets, interests and bounds of the clock. `Inv` says that an update not yet applied is
what curl asked for last, and that a socket of the selector is armed, bad, to be armed again because it had an event this turn, or has an
update to come. `TimerAgrees` needs no more than the types.

The theorems of `SyncSendProofs` hold for bodies and pipes of any size, and for a server that answers early. `Conserved` counts
the chunks: one that the reader gave is in the hand of the copy, in the pipe, or with curl.

The theorems of `CookieJarProofs` hold for any threads, cookies, editions and bound of the clock, provided that the lists of labels and
segments are sequences of strings and that no cookie is `None`. `Refreshes` says that `IS_REFRESHING` is set from the moment a refresh is spawned until the cache
is fresh, and at no other time but after a panic, so both parts of `OneRefreshPerTtl` follow; `Locks`, `Kept` and `Queries` are the types; `Editions` that a query is answered by an edition no
earlier than any that was served when it began. `JarIsStore` maps `Set` to `Put` and a tick to the removal of what expires with it.
`SetsStayAllowed` and `LookupsStayIsolated` need that whatever is in the jar was allowed for its host (`Allowed`).

The last eight theorems are about `Client`'s `Spec`: any headers, methods, bodies, values of fields and replies, any number of calls, any size of
chunks and any bound of the clock. They assume what the configurations give: the switch for decompression is a Boolean, a Content-Length is a
number or absent, a body is empty, a buffer or a reader with a number or no length, the character sets are the three that
`Reply` tells apart, and `None` is none of the values it stands beside. (That a text is not `None` is always an
assumption, because it follows from no definition.) The order of the options is not an assumption of the proofs: `ListedFields` computes it.

* `HeadersAreGood`: the property speaks of a built client only. `Builder` says for every moment that the error remembers every bad header
  ever given, though its header was replaced, and that the headers are the good ones given since the last replacement.
* `Configured`: `OptionsNamed` gives each field the names of the options it may set, and `FieldsMeet` shows that two fields
  meet in an option only if they are the authentication and the credentials of one side. So `Kept` can say that what a field has set is still
  there, with its value unless it is the empty user name of a negotiation that credentials replaced, and `Sourced`
  that an option is there only because of a field of its side, which is what keeps an origin's options from a proxy. `Places` says when there is a
  handle, and that its request is the merge of its own configuration and the client's.
  `OptionsFollow` derives the property when no field is left, one lemma for each named part (`PlainFollow` to `TlsFollow`): `OneField` says that an
  option that one field alone may set has what that field's value gives it, and `DialerValues`, `KeyValues`, `IdentityValues`, `TrustValues` and
  `TlsConfigValues` what the values give.
* `BlobsOutlive`: `BlobsAreKept` is inductive given `Places`, because blobs overwrite each other exactly as options do.
* `RequestsAreFramed`: the cases of the method, the body and the two lengths; `Framed` adds that curl decodes only if the request asked for it, which
  `LengthsAreRead` needs.
* `LengthsAreRead`, `ErrorsKeepKind`: `Responded` says from which reply and request a body was made, `Reads` that a reader has taken
  no more than the body has, and all of it when it answers. `ErrorsKeepKind` holds for every code, listed or not.
* `AnswersAreWhole`: `Decoded` says that after any number of reads the decoder is where a single pass over the bytes taken would be: a lead byte at the
  end is pending, and the text is that of the bytes before. `DecodeStep` is the case of one byte, `PushDecodes` that of a chunk,
  `FinishIsTextOf` the end.
* `DurationsAreTaken`: `Clock` says that a cell holds its stage's time or nothing, and that an observer who has seen the end of the
  handshake finds the connection's time stored.

These proofs need induction over numbers and over the bytes of a chunk. `LeastNumber` takes the least counterexample, and `SetInduction` is induction over a
set of numbers; with them `Folded` and `Flattened` show that the recursive functions behind `FoldLeft` and `FlattenSeq` exist and what their values are.
Options are put over each other by `++` of `Options`, which is defined there in terms of a function for that reason.

Only model-checked: the liveness properties `FiredWakerResumes`, `DropEnds`, `MessagesAreHandled`, `EverybodyIsReleased`, `TimeoutIsServed`,
`WatchIsHonoured`, `SendReturns` and `SetsEnd` (the provers used do not handle fairness), and what the violated properties of section 11 show. Every
invariant and every other action property of the passing runs is proved.

## 11. Where code and documentation disagree

* `agent_failure`: a request pushed while the agent is failing is never answered. The channel's content survives its receiver,
  because the handle keeps a sender, so the handler of that request is not dropped. `INTERNALS.md` promises that errors of the agent
  thread reach the parent thread; they do at the next `send_message` or when the client is dropped, which a caller that is waiting
  never gets to.
* `handler_upload`: the request body is moved into the response when the response body starts; if curl is still
  uploading, its next read callback reports the end of the body.
* `sync_send_early`: the same move takes the reading end of a synchronous upload's pipe out of the handler. `send` keeps the response
  until the copy is done, and the copy waits for room in a pipe that only the response could empty: a server that answers before it has
  read the body leaves `send` waiting for ever, though its documentation returns the response as soon as the headers are there.
* `client_proxy`: `set_opt_proxy` of `TlsConfig` passes the two `danger_accept_invalid_*` settings on without negating
  them, so a proxy's certificate and host name are not verified by default.

Others, without a violation of their own; the first two are said, as the code has it, by a property of a passing run:

* `src/redirect.rs:112` means to remove the configured authentication on a change of authority ("Remove auth configuration."), and removes an
  `Authentication` from the extensions of the next request. Nothing is there: authentication and credentials are in `RequestConfig`
  (`src/config/request.rs:59`), which the next request has a clone of, so they reach the new authority unchanged (`RequestsAreDerived`).
* `src/trailer.rs:15` guarantees that all trailers have arrived once the body has been consumed. `header` takes a line for a trailer field when the
  future has been answered, which the first body chunk or the end of the transfer does; with an empty body the fields come before that and end up
  among the response's headers, and the trailer is empty (`TrailerReadyAtEof`, `HeadersOfFinalResponse`).
* `src/lib.rs:13` promises that a request is cancelled when it is dropped. A dropped future is noticed by the next header or read
  callback only; if the server is silent and the upload is over, the transfer goes on.
* The comment at `src/redirect.rs:248` excludes a `Referer` on the way from https to http, but when
  `create_referer` makes none the one of an earlier hop stays among the cloned headers (`NextReferer`).
* The comment of `send_message` (`src/agent/mod.rs:243`) speaks of an error where the function panics; the "agent handle
  disconnected" branches of `poll_messages` cannot be reached, since `AgentContext` holds a sender of its own channel.
* `src/config/mod.rs` (`proxy_tls_config`) says that by default the same TLS configuration is used for all connections; nothing is
  set for a proxy unless the setting is given.
* The check for a maximum TLS version that rustls does not support is made for the origin only. A certificate or key file
  of an identity for a proxy whose path is not UTF-8 panics, where that of a trust store is `InvalidTlsConfiguration`; `Error::is_tls` leaves that kind out.
* `is_public_suffix` (`src/cookies/psl.rs:122`) promises that the current data answers while a refresh runs; a query that starts
  while the refresh holds the write lock waits for it.
* Of several `Expires` attributes the first counts; the key of a cookie in the jar compares the host of the request with its case.
* `secure_connect_time` is computed without the `max(0)` of the other durations. Within one connection this is safe
  (`DurationsAreNotNegative`); a transfer with a second connection, of which the model says nothing, would meet a connect time newer
  than the time of the handshake.
* `text.rs` keeps bytes that the decoder left over at the wrong end of its buffer. The code is not reached: `encoding_rs` takes all of them.
* A header whose value is not ASCII panics in `header_to_curl_string`. A DNS cache timeout below a second becomes 0, which turns the cache off.

## 12. What is not modelled

Header parsing (`src/parsing.rs`) is a set of pure string functions, whose outcomes `Handler` and `Configure` use; `info.rs` reads version
strings; `json` is serde's. The progress and debug callbacks of the handler change nothing but the metrics, which `Metrics` has, and the log.
The characters of cookies' names, values and dates, of URIs, of header values and of text are abstracted as said above. Interceptors of the
user take their place in the chain and do nothing. curl, the poller, the channel, the pipe, the slab, the event crates and `encoding_rs` are external;
what curl does with the options it is given is curl's. The cursor of a buffered body is the standard library's.

Some behaviours have no property because nothing says what they should be: a synchronous reader that fails ends the pipe before the
future is dropped, so the end of a chunked request may be sent in between; a transfer that fails while the copy is writing may
surface as a broken pipe. That the last clone of a client may be dropped on the agent's own thread (a body that owns one, in an upload of
another request) is not modelled, since bodies do not own clients in `Agent`; and `DropPanics` of `Agent` stops at the panic.
