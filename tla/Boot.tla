-------------------------------- MODULE Boot --------------------------------
(***************************************************************************)
(* app_main: in which order the firmware makes timers, tasks, queues and   *)
(* handlers, and what already runs meanwhile: the button, the one second   *)
(* timer, the tasks of SD card, USB and LED.  A handle that is used before *)
(* it is made is an assertion of FreeRTOS, a panic and a reboot.  The step *)
(* init_gps is that of UbxInit; a receiver keeps its settings when the     *)
(* firmware reboots.                                                       *)
(***************************************************************************)
EXTENDS UbxInit

CONSTANTS
  Options,     \* builds considered, sets of "GPS", "SDCARD", "LED" (or RGB)
  TextSize,    \* sizeof(info_log_data_buff)
  MainText,    \* characters app_main writes into it
  VersionLens, \* lengths of the receiver's version frame
  MaxPresses   \* bound: presses of the button, all boots together

ASSUME BootAssumption ==
  /\ Options \subseteq SUBSET {"GPS", "SDCARD", "LED"}
  /\ {TextSize, MainText, MaxPresses} \subseteq Nat
  /\ VersionLens \subseteq 40..512

VARIABLES
  options,     \* of the build; they never change
  step,        \* where app_main is
  text,        \* characters in info_log_data_buff
  secondOver,  \* a second may have gone by since the timer was started
  cpc, pressed, presses, early, \* sdcard_control_task; presses of the button
  upc, usb,    \* usb_transmitter_task; the first two records sent to usb_queue
  info,        \* length of the text in an info record, NULL before the first
  lpc, flash,  \* led_flash, and its notification
  cb, ltimer,  \* led_off_timer_cb, and whether its timer is armed
  pixel, shown \* colour in the driver, and the one seen

mainVars == <<step, text, secondOver>>
sdVars == <<cpc, pressed, presses, early>>
usbVars == <<upc, usb, info>>
ledVars == <<lpc, flash, cb, ltimer, pixel, shown>>
bootVars == <<vars, options, mainVars, sdVars, usbVars, ledVars>>

(* What app_main makes, in this order, and what each depends on; what the    *)
(* build leaves out takes no step.                                          *)
Gps == {"gps_ubx_init", "gps_read_task"}
Sd == {"sdcard_task_handle", "button_isr", "spi_bus", "sdcard_queue", "writer_task",
       "logFileMutex"}
Led == {"led_timer", "led_flash_task"}
Made(s) ==
  /\ s \in Gps => "GPS" \in options
  /\ s \in Sd => "SDCARD" \in options
  /\ s \in Led => "LED" \in options
(* Slip: the timer is started before the receiver is looked for. *)
init_gps_TimerFirst == <<"gps_timer", "gps_ubx_init", "gps_read_task">>
init_gps == <<"gps_ubx_init", "gps_timer", "gps_read_task">>
init_sdcard ==
  <<"sdcard_task_handle", "button_isr", "spi_bus", "sdcard_queue", "writer_task", "logFileMutex">>
(* Slip: the Wi-Fi callback is registered before the tasks are made. *)
app_main_CallbackFirst ==
  <<"info", "led_timer">> \o init_gps \o init_sdcard
    \o <<"led_flash_task", "usb_queue", "its_callback", "usb_task">>
app_main ==
  <<"info", "led_timer">> \o init_gps \o init_sdcard
    \o <<"led_flash_task", "usb_queue", "usb_task", "its_callback">>
Booted == step > Len(app_main)
Has(h) == Made(h) /\ \E i \in 1..(step - 1) : app_main[i] = h
GoOn ==
  /\ step' \in (step + 1)..(Len(app_main) + 1)
  /\ \A i \in (step + 1)..(step' - 1) : ~Made(app_main[i])
  /\ step' <= Len(app_main) => Made(app_main[step'])

Reset ==
  /\ step' = 1 /\ text' = 0 /\ secondOver' = FALSE
  /\ cpc' = "wait" /\ pressed' = FALSE /\ early' = FALSE
  /\ upc' = "none" /\ usb' = <<>> /\ info' = NULL
  /\ lpc' = "wait" /\ flash' = FALSE /\ cb' = "idle" /\ ltimer' = FALSE
  /\ pixel' = "dim" /\ shown' = "dim"

BootInit ==
  /\ Init /\ options \in Options
  /\ "GPS" \notin options => world = "nmea" /\ gps.baud = 9600
  /\ step = 1 /\ text = 0 /\ secondOver = FALSE
  /\ cpc = "wait" /\ pressed = FALSE /\ presses = 0 /\ early = FALSE
  /\ upc = "none" /\ usb = <<>> /\ info = NULL
  /\ lpc = "wait" /\ flash = FALSE /\ cb = "idle" /\ ltimer = FALSE
  /\ pixel = "dim" /\ shown = "dim"

(* A failed assertion: the firmware boots anew over the same receiver. *)
Panic ==
  /\ Reset /\ UNCHANGED <<options, presses, constVars, gps>>
  /\ pc' = "try" /\ attempt' = 0 /\ baud' = 9600
  /\ frame' = NULL /\ sent' = FALSE /\ found' = FALSE /\ try' = 0
  /\ wire' = NULL /\ rxq' = <<>> /\ result' = NULL

-----------------------------------------------------------------------------
(* app_main.  It has the lowest priority: the USB task runs before it goes  *)
(* on.  A step of its own takes much less than a second, a command to the   *)
(* receiver and the mount of a card may take more.                          *)

At(s) == ~Booted /\ app_main[step] = s /\ upc \notin {"version", "info"}
MayTakeLong == secondOver' \in {secondOver, Has("gps_timer")}

WriteInfo ==
  /\ At("info") /\ GoOn /\ text' = text + MainText
  /\ UNCHANGED <<vars, options, secondOver, sdVars, usbVars, ledVars>>

(* gps_ubx_init tells what it found; the receiver's version is a text of 29 *)
(* characters, one of 9 and as many of 29 as there are extensions.          *)
(* Slip: what is left behind the last extension is one more. *)
Extensions_Rest(len) == (len - 40 + 29) \div 30
Extensions(len) == (len - 40) \div 30
InfoAdded ==
  CASE result' = FALSE                     -> {16}
    [] pc = "version" /\ pc' = "messages" -> {20} \cup {72 + Extensions(l) * 45 : l \in VersionLens}
    [] OTHER                               -> {0}
InitGps ==
  /\ At("gps_ubx_init") /\ pc # "done"
  /\ Next
  /\ \E n \in InfoAdded : text' = text + n
  /\ MayTakeLong
  /\ UNCHANGED <<options, step, sdVars, usbVars, ledVars>>

(* Everything else app_main makes; tasks start to run, and what the receiver *)
(* still says is for the read task.                                         *)
Make ==
  /\ \E s \in Led \cup Gps \cup Sd \cup {"gps_timer", "usb_queue", "usb_task", "its_callback"} :
       /\ At(s)
       /\ s = "gps_ubx_init" => pc = "done"
       /\ upc' = IF s = "usb_task" THEN "version" ELSE upc
       /\ rxq' = IF s = "gps_read_task" THEN <<>> ELSE rxq
  /\ GoOn
  /\ UNCHANGED <<constVars, pc, attempt, baud, frame, cmdVars, wire, gps, result>>
  /\ UNCHANGED <<options, text, secondOver, sdVars, usb, info, ledVars>>

-----------------------------------------------------------------------------
(* log_data, called from the timer each second and from Wi-Fi; what it does *)
(* for a card is in SdCard.                                                 *)

Sent(r) == usb' = IF Len(usb) < 2 THEN Append(usb, r) ELSE usb
log_data(r) ==
  \E connected \in BOOLEAN :
    IF (connected /\ ~Has("usb_queue")) \/ ("LED" \in options /\ ~Has("led_flash_task"))
    THEN Panic
    ELSE /\ IF connected THEN Sent(r) ELSE UNCHANGED usb
         /\ flash' = ("LED" \in options) /\ secondOver' = FALSE
         /\ UNCHANGED <<vars, options, step, text, sdVars, upc, info>>
         /\ UNCHANGED <<lpc, cb, ltimer, pixel, shown>>

gps_log_data == Has("gps_timer") /\ (secondOver \/ Booted) /\ log_data("second")
its_log_data == Has("its_callback") /\ log_data("its")

usb_transmitter_task ==
  \/ /\ upc = "version" /\ Sent("version") /\ upc' = "info"
     /\ UNCHANGED <<vars, options, mainVars, info, sdVars, ledVars>>
  \/ /\ upc = "info" /\ Sent("info") /\ info' = text /\ upc' = "receive"
     /\ UNCHANGED <<vars, options, mainVars, sdVars, ledVars>>

-----------------------------------------------------------------------------
(* The button and sdcard_control_task, up to the first log. *)

button_isr_handler ==
  /\ Has("button_isr") /\ presses < MaxPresses
  /\ pressed' = TRUE /\ presses' = presses + 1 /\ early' = (early \/ ~Booted)
  /\ UNCHANGED <<vars, options, mainVars, cpc, usbVars, ledVars>>

sdcard_control_task ==
  \/ /\ cpc = "wait" /\ pressed /\ cpc' = "mount" /\ pressed' = FALSE
     /\ UNCHANGED <<vars, options, mainVars, presses, early, usbVars, ledVars>>
  \/ /\ cpc = "mount"  \* fails without a card, and without the bus
     /\ cpc' \in {"wait"} \cup IF Has("spi_bus") THEN {"lock"} ELSE {}
     /\ MayTakeLong
     /\ UNCHANGED <<vars, options, step, text, pressed, presses, early, usbVars, ledVars>>
  \/ /\ cpc = "lock" /\ ~Has("logFileMutex") /\ Panic
  \/ /\ cpc = "lock" /\ Has("logFileMutex") /\ cpc' = "log"
     /\ info' = text
     /\ UNCHANGED <<vars, options, mainVars, pressed, presses, early, upc, usb, ledVars>>

-----------------------------------------------------------------------------
(* The LED: a flash starts a timer, which ends it.  Between the setting of  *)
(* a colour and its way to the LED others may run.                          *)

Take ==
  /\ Has("led_flash_task") /\ lpc = "wait" /\ flash /\ flash' = FALSE
  /\ pixel' = "bright" /\ lpc' = "refresh"
  /\ UNCHANGED <<cb, ltimer, shown>>
Refresh ==
  lpc = "refresh" /\ shown' = pixel /\ lpc' = "stop" /\ UNCHANGED <<flash, cb, ltimer, pixel>>
(* Slip: a timer that runs is not started again, then stopped. *)
Restart_StopLast ==
  \/ lpc = "stop" /\ ltimer' = TRUE /\ lpc' = "start" /\ UNCHANGED <<flash, cb, pixel, shown>>
  \/ lpc = "start" /\ ltimer' = FALSE /\ lpc' = "wait" /\ UNCHANGED <<flash, cb, pixel, shown>>
Restart ==
  \/ lpc = "stop" /\ ltimer' = FALSE /\ lpc' = "start" /\ UNCHANGED <<flash, cb, pixel, shown>>
  \/ lpc = "start" /\ ltimer' = TRUE /\ lpc' = "wait" /\ UNCHANGED <<flash, cb, pixel, shown>>
led_flash ==
  (Take \/ Refresh \/ Restart) /\ UNCHANGED <<vars, options, mainVars, sdVars, usbVars>>

led_off_timer_cb ==
  /\ \/ /\ cb = "idle" /\ ltimer /\ ltimer' = FALSE
        /\ pixel' = "dim" /\ cb' = "refresh" /\ UNCHANGED shown
     \/ cb = "refresh" /\ shown' = pixel /\ cb' = "idle" /\ UNCHANGED <<ltimer, pixel>>
  /\ UNCHANGED <<vars, options, mainVars, sdVars, usbVars, lpc, flash>>

-----------------------------------------------------------------------------
Main == WriteInfo \/ Make
BootNext ==
  \/ Main \/ InitGps \/ gps_log_data \/ its_log_data \/ usb_transmitter_task
  \/ button_isr_handler \/ sdcard_control_task \/ led_flash \/ led_off_timer_cb

(* Tasks run when nothing of a higher priority does, timers run out; init_gps *)
(* has the fairness of UbxInit.                                             *)
BootSpec ==
  /\ BootInit /\ [][BootNext]_bootVars
  /\ WF_bootVars(Main) /\ WF_bootVars(InitGps /\ Handle)
  /\ WF_bootVars(InitGps /\ (Tx \/ Rx)) /\ SF_bootVars(InitGps /\ Timeout)
  /\ WF_bootVars(usb_transmitter_task) /\ WF_bootVars(sdcard_control_task)
  /\ WF_bootVars(led_flash) /\ WF_bootVars(led_off_timer_cb)

-----------------------------------------------------------------------------
(* Properties. *)

(* Every variable keeps its type, and so do those of UbxInit; the info text *)
(* stays within its buffer, with the zero behind it (info_log_data).        *)
BootTypeOK ==
  /\ TypeOK /\ options \in Options
  /\ step \in 1..(Len(app_main) + 1) /\ secondOver \in BOOLEAN
  /\ text \in 0..(TextSize - 1)
  /\ cpc \in {"wait", "mount", "lock", "log"} /\ presses \in 0..MaxPresses
  /\ {pressed, early, flash, ltimer} \subseteq BOOLEAN
  /\ upc \in {"none", "version", "info", "receive"}
  /\ usb \in Seq({"version", "info", "second", "its"}) /\ info \in Nat \cup {NULL}
  /\ lpc \in {"wait", "refresh", "stop", "start"} /\ cb \in {"idle", "refresh"}
  /\ {pixel, shown} \subseteq {"dim", "bright"}

(* No queue, task or mutex is used before app_main has made it, by whatever *)
(* runs meanwhile, unless somebody presses the button while it boots.       *)
NoNullUse == [][step > 1 /\ step' = 1 => early]_bootVars

(* The first records a client can get from the queue are version and info,  *)
(* and an info record on either way has the whole text: what is found out   *)
(* about the receiver is not missing (usb_transmitter_task, init_gps).      *)
PreambleFirst ==
  /\ ~early => \A i \in DOMAIN usb : usb[i] = <<"version", "info">>[i]
  /\ info # NULL => info = text

(* The firmware comes up for good, also when somebody presses the button    *)
(* meanwhile, unless a receiver without pauses keeps gps_ubx_init.          *)
BootCompletes == "GPS" \notin options \/ world # "chatty nmea" => <>[]Booted

(* When no record is logged any more, the LED does not stay bright,         *)
(* whatever the last flash and the end of the one before came between.      *)
LedSettles == <>[]~flash => <>[](shown = "dim")
=============================================================================
