----------------------------- MODULE MCChoreography -----------------------------
(* Small pages for Choreography: one whose bindings cascade over two panels *)
(* and four animations, and one without any animation.                      *)
EXTENDS Choreography

On(event, source, action, target, to, delay) ==
    [event |-> event, source |-> source, action |-> action, target |-> target,
     to |-> to, delay |-> delay]

MCAnims == {"intro", "dim", "glow", "exit"}
MCKind == [a \in MCAnims |-> IF a = "glow" THEN "wasm" ELSE "frame"]
MCAutoplay == {"intro", "dim"}
MCAfter == [a \in MCAnims |-> IF a = "dim" THEN "intro" ELSE None]
MCLength == [a \in MCAnims |-> IF a = "intro" THEN 2 ELSE 1]
MCHome == [a \in MCAnims |->
              IF a = "dim" THEN <<"p", "off">> ELSE IF a = "glow" THEN <<"p", "on">> ELSE None]
MCPanels == {"p", "q", "r"}
MCStates == [p \in MCPanels |-> <<"off", "on">>]
MCDuration == [p \in MCPanels |-> [s \in {"off", "on"} |-> IF p = "q" THEN 4 ELSE 0]]
MCBindings ==
    << On("page-load", None, "set", "p", "on", 2),
       On("animation-end", "intro", "toggle", "q", None, 0),
       On("state-change", "p", "animate", "glow", None, 1),
       On("animation-end", "glow", "toggle", "r", None, 0),
       On("state-change", "r", "toggle", "r", None, 0),
       On("focus", None, "stop", "exit", None, 0),
       On("blur", None, "animate", "exit", None, 4) >>
=============================================================================
