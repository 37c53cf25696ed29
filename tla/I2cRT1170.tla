----------------------------- MODULE I2cRT1170 -----------------------------
(***************************************************************************)
(* The I2C functions of the RT1170 board: the camera is on LPI2C6, the     *)
(* other devices are on LPI2C5.                                            *)
(***************************************************************************)
EXTENDS I2cSteps

BOARD_ACCEL_I2C_CLOCK_FREQ == Measured
BOARD_CODEC_I2C_CLOCK_FREQ == 24000
BOARD_CAMERA_I2C_CLOCK_DIVIDER == 12
BOARD_MIPI_PANEL_TOUCH_I2C_CLOCK_DIVIDER == 12
Osc24M == 24000    \* source 1 of a clock root

-----------------------------------------------------------------------------
BOARD_LPI2C_Init(base, clkSrc) == Start(base, clkSrc)
BOARD_LPI2C_Send(base, dev, sub) == Write(base, dev, sub)
BOARD_LPI2C_Receive(base, dev, sub) == Read(base, dev, sub)

(* The camera's protocol, which has no restart: the register's number is a *)
(* transfer of its own.                                                    *)
BOARD_LPI2C_SendSCCB(base, dev, sub) == Write(base, dev, sub)
BOARD_LPI2C_ReceiveSCCB(base, dev, sub) == Point(base, dev, sub) \o ReadOn(base, dev)

-----------------------------------------------------------------------------
Accel(sub) ==
    {InitOf("accel", BOARD_LPI2C_Init("LPI2C5", BOARD_ACCEL_I2C_CLOCK_FREQ)),
     SendOf("accel", sub, BOARD_LPI2C_Send("LPI2C5", "accel", sub)),
     ReceiveOf("accel", sub, BOARD_LPI2C_Receive("LPI2C5", "accel", sub))}

Codec(sub) ==
    {InitOf("codec", BOARD_LPI2C_Init("LPI2C5", BOARD_CODEC_I2C_CLOCK_FREQ)),
     SendOf("codec", sub, BOARD_LPI2C_Send("LPI2C5", "codec", sub)),
     ReceiveOf("codec", sub, BOARD_LPI2C_Receive("LPI2C5", "codec", sub))}

BOARD_Camera_I2C_Init ==
    Root("LPI2C6", Osc24M, BOARD_CAMERA_I2C_CLOCK_DIVIDER) \o BOARD_LPI2C_Init("LPI2C6", Measured)

Camera(sub) ==
    {InitOf("camera", BOARD_Camera_I2C_Init),
     SendOf("camera", sub, BOARD_LPI2C_Send("LPI2C6", "camera", sub)),
     SendOf("camera", sub, BOARD_LPI2C_SendSCCB("LPI2C6", "camera", sub)),
     ReceiveOf("camera", sub, BOARD_LPI2C_Receive("LPI2C6", "camera", sub)),
     ReceiveOf("camera", sub, BOARD_LPI2C_ReceiveSCCB("LPI2C6", "camera", sub))}

(* The panel slows the bus down for the devices it shares it with.         *)
BOARD_MIPIPanelTouch_I2C_Init ==
    Root("LPI2C5", Osc24M, BOARD_MIPI_PANEL_TOUCH_I2C_CLOCK_DIVIDER)
    \o BOARD_LPI2C_Init("LPI2C5", Measured)

MIPIPanelTouch(sub) ==
    {InitOf("touch", BOARD_MIPIPanelTouch_I2C_Init),
     SendOf("touch", sub, BOARD_LPI2C_Send("LPI2C5", "touch", sub)),
     ReceiveOf("touch", sub, BOARD_LPI2C_Receive("LPI2C5", "touch", sub))}

Calls(registers) ==
    UNION {Accel(r) \cup Codec(r) \cup Camera(r) \cup MIPIPanelTouch(r) : r \in registers}
=============================================================================
