SPECIFICATION Spec
CONSTANTS
  COUNT_WRAP = 32
  LED_TICKS = 5
  USB_TICKS = 2
  KEYPAD_TICKS = 3
  VBATT_TICKS = 10
  Held = {"KEY_DOWN", "KEY_RIGHT", "KEY_SELECT", "KEY_UP", "KEY_LEFT", NoKey}
  Reading <- KeyReading
  Released = {250, 255}
  Battery = {159, 255}
  NoKey = NoKey
INVARIANT TypeOK PressesAreReal
PROPERTY KeyReported BatteryReported
