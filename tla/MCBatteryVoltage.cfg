SPECIFICATION Spec
CONSTANTS
  COUNT_WRAP = 32
  LED_TICKS = 5
  USB_TICKS = 2
  KEYPAD_TICKS = 3
  VBATT_TICKS = 10
  Held = {"KEY_DOWN", NoKey}
  Reading <- KeyReading
  Released = {255}
  Battery = {159, 255}
  NoKey = NoKey
INVARIANT EventWithBatteryVoltage
