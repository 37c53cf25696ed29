----------------------------- MODULE I2cRT1060 -----------------------------
(***************************************************************************)
(* The I2C functions of the RT1060 board: four devices on LPI2C1.          *)
(***************************************************************************)
EXTENDS I2cSteps

Bus == "LPI2C1"
Usb1Pll8 == 480000 \div 8   \* the clock that source 0 of LPI2C stands for

BOARD_ACCEL_I2C_CLOCK_FREQ == Usb1Pll8 \div (5 + 1)
BOARD_CODEC_I2C_CLOCK_FREQ == 10000
BOARD_CAMERA_I2C_CLOCK_SOURCE_DIVIDER == 5
BOARD_CAMERA_I2C_CLOCK_FREQ == Usb1Pll8 \div (BOARD_CAMERA_I2C_CLOCK_SOURCE_DIVIDER + 1)

-----------------------------------------------------------------------------
BOARD_LPI2C_Init(clkSrc) == Start(Bus, clkSrc)
BOARD_LPI2C_Send(dev, sub) == Write(Bus, dev, sub)
BOARD_LPI2C_Receive(dev, sub) == Read(Bus, dev, sub)

(* The camera's protocol, which has no restart: the register's number is a *)
(* transfer of its own.                                                    *)
BOARD_LPI2C_SendSCCB(dev, sub) == Write(Bus, dev, sub)
BOARD_LPI2C_ReceiveSCCB(dev, sub) == Point(Bus, dev, sub) \o ReadOn(Bus, dev)

-----------------------------------------------------------------------------
(* Accelerometer and codec trust that somebody has set the bus's clock.    *)
Accel(sub) ==
    {InitOf("accel", BOARD_LPI2C_Init(BOARD_ACCEL_I2C_CLOCK_FREQ)),
     SendOf("accel", sub, BOARD_LPI2C_Send("accel", sub)),
     ReceiveOf("accel", sub, BOARD_LPI2C_Receive("accel", sub))}

Codec(sub) ==
    {InitOf("codec", BOARD_LPI2C_Init(BOARD_CODEC_I2C_CLOCK_FREQ)),
     SendOf("codec", sub, BOARD_LPI2C_Send("codec", sub)),
     ReceiveOf("codec", sub, BOARD_LPI2C_Receive("codec", sub))}

BOARD_Camera_I2C_InitUndivided ==   \* mutant: the divider is not set
    Source(Bus, Usb1Pll8) \o BOARD_LPI2C_Init(BOARD_CAMERA_I2C_CLOCK_FREQ)

BOARD_Camera_I2C_Init ==
    Source(Bus, Usb1Pll8) \o Divider(Bus, BOARD_CAMERA_I2C_CLOCK_SOURCE_DIVIDER + 1)
    \o BOARD_LPI2C_Init(BOARD_CAMERA_I2C_CLOCK_FREQ)

Camera(sub) ==
    {InitOf("camera", BOARD_Camera_I2C_Init),
     SendOf("camera", sub, BOARD_LPI2C_Send("camera", sub)),
     SendOf("camera", sub, BOARD_LPI2C_SendSCCB("camera", sub)),
     ReceiveOf("camera", sub, BOARD_LPI2C_Receive("camera", sub)),
     ReceiveOf("camera", sub, BOARD_LPI2C_ReceiveSCCB("camera", sub))}

(* The touch panel has no Init: another device's starts the bus.           *)
Touch(sub) ==
    {SendOf("touch", sub, BOARD_LPI2C_Send("touch", sub)),
     ReceiveOf("touch", sub, BOARD_LPI2C_Receive("touch", sub))}

Calls(registers) == UNION {Accel(r) \cup Codec(r) \cup Camera(r) \cup Touch(r) : r \in registers}
=============================================================================
