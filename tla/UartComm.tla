------------------------------ MODULE UartComm ------------------------------
(***************************************************************************)
(* The serial link to the payload (uart_comm.c, simulation build).  The    *)
(* adapter may be unplugged and plugged in again; a descriptor opened      *)
(* before that is dead: its writes and tcgetattr fail.  A write on a live  *)
(* one may be short.  There is one configuration.                          *)
(***************************************************************************)
EXTENDS Integers

VARIABLES
  adapter,        \* the device file can be opened
  fd,             \* s_uart_fd: "none" (negative), "live" or "dead"
  uartReady       \* s_initialized

uartVars == <<adapter, fd, uartReady>>

UartInit == adapter = TRUE /\ fd = "none" /\ uartReady = FALSE

(* uart_init_with_config on a closed link: what open, tcgetattr and        *)
(* tcsetattr give.                                                         *)
Opened(here) == [fd |-> IF here THEN "live" ELSE "none", ready |-> here]

OpenUart ==
  /\ fd' = Opened(adapter).fd
  /\ uartReady' = Opened(adapter).ready

CloseUart == fd' = "none" /\ uartReady' = FALSE

(* uart_init returns early on an initialised link. *)
StartUart == IF uartReady THEN UNCHANGED <<fd, uartReady>> ELSE OpenUart

(* uart_send: a write that fails or falls short closes the link, opens it  *)
(* again and is retried once; the retry's failure changes nothing more.    *)
Send ==
  IF uartReady /\ fd # "none"
  THEN (fd = "live" /\ UNCHANGED <<fd, uartReady>>) \/ OpenUart
  ELSE UNCHANGED <<fd, uartReady>>

(* uart_check_health finds the link unusable. *)
Sick == uartReady /\ fd # "live"

Unplug ==
  /\ adapter' = FALSE
  /\ fd' = IF fd = "live" THEN "dead" ELSE fd
  /\ UNCHANGED uartReady

Plug == adapter' = TRUE /\ UNCHANGED <<fd, uartReady>>

-----------------------------------------------------------------------------
UartTypeOK ==
  /\ {adapter, uartReady} \subseteq BOOLEAN
  /\ fd \in {"none", "live", "dead"}
=============================================================================
