---------------------------- MODULE MCUsbKeyboard ----------------------------
(* Keyboards with and without an endpoint, a mouse, a device of neither    *)
(* class; packets of two bytes; two devices one after the other.           *)
EXTENDS UsbKeyboard

MCReports == {<<4, 7, 26, 22, 0, 0>>, <<4, 7, 26, 22, 44, 0>>}

MCDevices == {<<"conf", "keyboard", "hid", "endpoint">>, <<"conf", "keyboard", "hid">>,
              <<"conf", "mouse", "hid", "endpoint">>, <<"conf", "vendor", "keyboard", "endpoint">>}

(* 8, 18, 9, 34 bytes and 1 in packets of 8.                               *)
MCLength == [DevDescr8 |-> 2, DevDescr |-> 3, ConfDescr |-> 3, Config |-> 4,
             GetIdle |-> 1, GetProto |-> 1]
=============================================================================
