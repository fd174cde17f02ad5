----------------------------- MODULE MCPrograms -----------------------------
(***************************************************************************)
(* The small programs side by side.  A behaviour runs one of them, and the *)
(* others stay in their initial states.                                    *)
(***************************************************************************)
EXTENDS LinkedList, UartParser, PingPong, ButtonPress, Debounce, MsCounter,
        MCConfig, MCShell, RunLength, Crc8, Bitwise

VARIABLE program
vars == <<program, listVars, uartVars, pingPongVars, buttonVars, debounceVars,
          counterVars, configVars, shellVars, rleVars, crcVars>>

MCXor(a, b) == a ^^ b
MCOctet(n) == [j \in Bits |-> (n \div 2^j) % 2]
MCMessages == {<<MCOctet(49)>>, <<MCOctet(128), MCOctet(1)>>}
MCPolynomial == MCOctet(7)

\* One initial state is enough for a program that stands still.
Init == /\ program \in {"list", "uart", "pingpong", "button", "debounce",
                        "counter", "config", "shell", "rle", "crc"}
        /\ ListInit /\ (program # "list" => data = CHOOSE d \in Data : TRUE)
        /\ UartInit /\ (program # "uart" => cmd = 0)
        /\ PingPongInit
        /\ ButtonInit
        /\ DebounceInit /\ (program # "debounce" => current_time_ms = 0)
        /\ CounterInit /\ (program # "counter" => ms_counter = 0)
        /\ config_init
        /\ ShellInit /\ (program # "shell" => waited = CHOOSE p \in Pids : TRUE)
        /\ RleInit /\ (program # "rle" => output_max_len = 0)
        /\ CrcInit /\ (program # "crc" => Len(codeword) = 2)

\* Every program but p stands still.
Only(p) == /\ program = p /\ UNCHANGED program
           /\ IF p = "list" THEN TRUE ELSE UNCHANGED listVars
           /\ IF p = "uart" THEN TRUE ELSE UNCHANGED uartVars
           /\ IF p = "pingpong" THEN TRUE ELSE UNCHANGED pingPongVars
           /\ IF p = "button" THEN TRUE ELSE UNCHANGED buttonVars
           /\ IF p = "debounce" THEN TRUE ELSE UNCHANGED debounceVars
           /\ IF p = "counter" THEN TRUE ELSE UNCHANGED counterVars
           /\ IF p = "config" THEN TRUE ELSE UNCHANGED configVars
           /\ IF p = "shell" THEN TRUE ELSE UNCHANGED shellVars
           /\ IF p = "rle" THEN TRUE ELSE UNCHANGED rleVars
           /\ IF p = "crc" THEN TRUE ELSE UNCHANGED crcVars

Next == \/ Only("list") /\ ListNext
        \/ Only("uart") /\ UartNext
        \/ Only("pingpong") /\ PingPongNext
        \/ Only("button") /\ ButtonNext
        \/ Only("debounce") /\ DebounceNext
        \/ Only("counter") /\ CounterNext
        \/ Only("config") /\ ConfigNext
        \/ Only("shell") /\ ShellNext
        \/ Only("rle") /\ RleNext
        \/ Only("crc") /\ CrcNext

\* The fairness of UartSpec and of DebounceSpec.
Fairness == /\ WF_vars(Only("uart") /\ UartNext)
            /\ WF_vars(Only("debounce") /\ DebounceTick)
            /\ SF_vars(Only("debounce") /\ PollWhenDue)

Spec == Init /\ [][Next]_vars /\ Fairness
=============================================================================
